---- MODULE Spec2Model ----
(***************************************************************************)
(* Model of the workflow proxy of world_seek (utils/workflow.py): the      *)
(* retry/backoff controller around non-streaming calls and the stream      *)
(* relay langflow_stream_generator with its chunk normalizer               *)
(* process_stream_chunk / process_json_data.                               *)
(*                                                                         *)
(* Text is modelled by TLA+ strings; "" is the empty (falsy) string.       *)
(* An outbound SSE frame is a record: [sse |-> "done"] is the literal      *)
(* line "data: [DONE]", [sse |-> "json", obj |-> o] is "data: <json>"      *)
(* where the record o has exactly the keys of the JSON object.             *)
(***************************************************************************)
EXTENDS Integers, Sequences, FiniteSets, TLC

VARIABLES
  mode,             \* "new" | "stream" | "request": which branch call_langflow_api took
  stream,           \* the argument `stream` of call_langflow_api
  \* ---- retry_with_backoff (non-streaming call)
  max_retries,      \* parameter max_retries
  backoff_factor,   \* parameter backoff_factor
  rpc,              \* "idle" | "loop" | "returned" | "raised"
  retry,            \* loop variable of `for retry in range(max_retries + 1)`
  attempts,         \* number of times func was awaited
  waits,            \* the arguments of asyncio.sleep, in order
  last_exception,   \* the exception of the latest failed attempt (NoException if none)
  thrown,           \* the exceptions func raised, one per failed attempt, in order
  outcome,          \* what retry_with_backoff returned or raised
  \* ---- langflow_stream_generator (streaming call)
  pc,               \* "idle" | "streaming" | "finishing" | "closed" | "cancelled"
  session,          \* the aiohttp session of the call: "none" | "open" | "closed"
  how,              \* how the call terminated ("none" while it runs)
  posts,            \* number of session.post calls issued by the generator
  response_status,  \* response.status of the streaming POST (0: no response)
  nread,            \* number of chunks delivered by response.content.iter_chunks()
  chunk_processed,  \* local flag chunk_processed
  chunk_count,      \* stats.chunk_count
  accumulated_content, \* stats.accumulated_content
  session_id,       \* stats.session_id ("null" is None)
  pending,          \* frames the running step will yield, not yet taken by the consumer
  out,              \* frames received by the consumer, in order
  \* ---- run_workflow (routers/workflows.py)
  run_pc,           \* "idle" (no request) | "start" | "calling" | "done"
  messages,         \* form_data["messages"]
  req_stream,       \* form_data["params"].get("stream"): "absent" | "true" | "false"
  agent_id,         \* form_data.get("agent_id"): "none" or an id
  base_url,         \* configuration LANGFLOW_BASE_URL
  workflow_row,     \* the workflow_app row of workflow_id (found = FALSE: no row)
  agent_row,        \* the agent row of agent_id: "missing" | "deleted" | "live"
  latest_message,   \* local latest_message
  langflow_data,    \* the payload handed to call_langflow_api (EmptyDict: none)
  upstream_status,  \* the status Langflow answers every POST of this request with
  response,         \* the HTTP answer of run_workflow
  \* ---- format_url
  url_pc,           \* "idle" | "args" | "once" | "twice"
  url_args,         \* the arguments base_url and path, and how they were built
  url,              \* format_url(base_url, path)
  url_again,        \* format_url(base_url, url)
  \* ---- concurrent streaming calls
  calls,            \* per call: its position, the units it read, the frames it yielded
  call_stats,       \* per StreamStats object: its accumulated_content
  \* ---- process_stream_chunk applied to one unit
  unit_pc,          \* "idle" | "ready" | "done"
  unit,             \* the chunk
  stats_before,     \* stats when the chunk arrives
  stats_after,      \* stats when process_stream_chunk is exhausted
  yielded,          \* the frames it yielded
  \* ---- process_response applied to one upstream response
  resp_pc,          \* "idle" | "ready" | "done"
  resp,             \* the response: status, Content-Type, body and its length
  resp_result,      \* what process_response returned or raised
  \* ---- get_workflows / sync_workflows_with_database
  table,            \* the rows of workflow_app
  upstream,         \* the flows Langflow answers GET /flows/ with
  reqs              \* per request: its position and the locals of its sync

retryVars == <<max_retries, backoff_factor, rpc, retry, attempts, waits,
               last_exception, thrown, outcome>>
streamVars == <<pc, session, how, posts, response_status, nread, chunk_processed, chunk_count,
                accumulated_content, session_id, pending, out>>
runVars == <<run_pc, messages, req_stream, agent_id, base_url, workflow_row,
             agent_row, latest_message, langflow_data, upstream_status, response>>
urlVars == <<url_pc, url_args, url, url_again>>
callVars == <<calls, call_stats>>
unitVars == <<unit_pc, unit, stats_before, stats_after, yielded>>
respVars == <<resp_pc, resp, resp_result>>
syncVars == <<table, upstream, reqs>>
otherVars == <<respVars, syncVars>>
pureVars == <<urlVars, callVars, unitVars, otherVars>>
vars == <<mode, stream, retryVars, streamVars, runVars, pureVars>>

-----------------------------------------------------------------------------
(* Bounds of the model *)

MaxChunks == 3          \* chunks the upstream delivers at most in one call
MaxRetriesBound == 3    \* max_retries ranges over 0..MaxRetriesBound
MaxBackoff == 3         \* backoff_factor ranges over 1..MaxBackoff

(* Program constants *)

MAX_RETRIES == 2
RETRY_BACKOFF_FACTOR == 2

-----------------------------------------------------------------------------
(* retry_with_backoff, process_response, make_request *)

NoException == [cls |-> "None", msg |-> "", attempt |-> -1]

\* What one session.post of make_request can meet: an exception of the
\* transport, or a response with a status, a Content-Type and a body.
TransportResults ==
  [exc : {"TimeoutError", "ClientConnectionError"}, status : {0},
   ctype : {""}, body : {""}]
  \cup
  [exc : {""}, status : {200, 404, 500},
   ctype : {"application/json", "text/html", "text/plain"},
   body : {"json", "garbage"}]

ResponseOk(status) == status < 400

\* 'html' in content_type.lower() / 'json' in content_type.lower()
ContainsHtml(ct) == ct \in {"text/html", "application/html+json"}
ContainsJson(ct) == ct \in {"application/json", "application/html+json"}

\* the mimetypes response.json() of aiohttp decodes (its default
\* content_type='application/json'); any other raises ContentTypeError
JsonMimetype(ct) == ct \in {"application/json", "application/html+json"}

\* process_response: [ok |-> TRUE, value |-> body] or [ok |-> FALSE, cls, msg]
process_response(r) ==
  IF ~ResponseOk(r.status)
  THEN [ok |-> FALSE, cls |-> "WorkflowAPIError", msg |-> "api_error_status"]
  ELSE IF ContainsHtml(r.ctype) /\ ~ContainsJson(r.ctype)
  THEN [ok |-> FALSE, cls |-> "WorkflowAPIError", msg |-> "html_instead_of_json"]
  ELSE IF ~JsonMimetype(r.ctype)
  THEN [ok |-> FALSE, cls |-> "ContentTypeError", msg |-> "unexpected_mimetype"]
  ELSE IF r.body # "json"
  THEN [ok |-> FALSE, cls |-> "WorkflowAPIError", msg |-> "cannot_parse_json"]
  ELSE [ok |-> TRUE, cls |-> "", msg |-> "upstream_json"]

\* make_request: one POST, then process_response
make_request(r) ==
  IF r.exc # ""
  THEN [ok |-> FALSE, cls |-> r.exc, msg |-> "transport"]
  ELSE process_response(r)

RECURSIVE Pow(_, _)
Pow(b, e) == IF e = 0 THEN 1 ELSE b * Pow(b, e - 1)

\* wait_time = backoff_factor ** retry
WaitTime(bf, i) == Pow(bf, i)

\* variant: sleeps after every failed attempt, the last one included
SleepsAfterEveryAttempt(i, mr) == TRUE

\* `if retry < max_retries:` the sleep is skipped after the last attempt
SleepsAfter(i, mr) == i < mr

\* variant: keeps the first exception instead of the latest
RecordFirstException(prev, e) == IF prev = NoException THEN e ELSE prev

\* `last_exception = e`
RecordException(prev, e) == e

\* variant: a result does not end the loop
ResultIgnored(p) == p

\* `return await func(*args, **kwargs)`: the first result ends the loop
ReturnResult(p) == "returned"

\* One iteration of the loop of retry_with_backoff: await func, and on an
\* exception record it and sleep unless this was the last iteration.
RetryAttempt ==
  /\ mode = "request" /\ rpc = "loop"
  /\ retry <= max_retries
  /\ \E r \in TransportResults :
       LET res == make_request(r) IN
       /\ attempts' = attempts + 1
       /\ IF res.ok
          THEN /\ rpc' = ReturnResult(rpc)
               /\ outcome' = [cls |-> "return", msg |-> res.msg, attempt |-> retry]
               /\ UNCHANGED <<retry, waits, last_exception, thrown>>
          ELSE /\ last_exception' =
                    RecordException(last_exception,
                                    [cls |-> res.cls, msg |-> res.msg, attempt |-> retry])
               /\ thrown' = Append(thrown, [cls |-> res.cls, msg |-> res.msg,
                                            attempt |-> retry])
               /\ waits' = IF SleepsAfter(retry, max_retries)
                           THEN Append(waits, WaitTime(backoff_factor, retry))
                           ELSE waits
               /\ retry' = retry + 1
               /\ UNCHANGED <<rpc, outcome>>
  /\ UNCHANGED <<mode, stream, max_retries, backoff_factor, streamVars, runVars, pureVars>>

\* After the loop: `if last_exception: raise last_exception`
RetryExhausted ==
  /\ mode = "request" /\ rpc = "loop"
  /\ retry > max_retries
  /\ rpc' = "raised"
  /\ outcome' = IF last_exception # NoException
                THEN last_exception
                ELSE [cls |-> "WorkflowError", msg |-> "retry_failed", attempt |-> -1]
  /\ UNCHANGED <<mode, stream, max_retries, backoff_factor, retry, attempts, waits,
                 last_exception, thrown, streamVars, runVars, pureVars>>

-----------------------------------------------------------------------------
(* Upstream units *)

\* One inner_output of result.outputs[].outputs[]:
\*   om  = "none": no outputs.message; "nomsg": outputs.message without a
\*         `message` key; "msg": outputs.message.message = omv
\*   rm  = "none": no results.message; "notext": results.message without
\*         data.text; "text": results.message.data.text = rmv;
\*         "number": results.message.data.text is a JSON number
InnerOutput(om, omv, rm, rmv) == [om |-> om, omv |-> omv, rm |-> rm, rmv |-> rmv]

\* data.result of an upstream event: msgKey says whether `message` is a key
\* and session_id is result.session_id ("": no such key)
NoResult == [msgKey |-> FALSE, message |-> "", outputs |-> <<>>, session_id |-> ""]
Result(msgKey, message, outputs) ==
  [msgKey |-> msgKey, message |-> message, outputs |-> outputs, session_id |-> ""]

\* One chunk delivered by iter_chunks():
\*   kind "undecodable": bytes that are not valid UTF-8
\*   kind "done":  the text [DONE]            kind "text": non-JSON text s
\*   kind "blank": whitespace only           kind "nondict": JSON, not an object
\*   kind "token": {"event":"token","data":{"chunk":s, "id"?, "timestamp"?}}
\*   kind "end":   {"event":"end","data":{"result":result}}
\*   kind "add_message": {"event":"add_message", ...}
\*   kind "legacy": {"data":{"result":result}} without an event
\*   kind "other": any other JSON object; fields are its top-level members
\*         content, choices[0].delta.content, text, response and
\*         error.detail ("": no such member)
\*   kind "joined": several events in one chunk, parts are the events as the
\*         upstream sent them and s is the raw text of the chunk
\* pref says whether the chunk text starts with `data:`.
NoFields == [content |-> "", delta |-> "", text |-> "", response |-> "", error |-> ""]

UpstreamChunk(kind, pref, s, id, ts, result) ==
  [kind |-> kind, pref |-> pref, s |-> s, id |-> id, ts |-> ts, result |-> result,
   fields |-> NoFields, parts |-> <<>>]

\* a JSON object without event and data, with the given members
ObjectChunk(pref, fields) ==
  [UpstreamChunk("other", pref, "", "", "", NoResult) EXCEPT !.fields = fields]

\* the events c1 and c2 delivered in one transport chunk
JoinedChunk(c1, c2, raw) ==
  [UpstreamChunk("joined", c1.pref, raw, "", "", NoResult) EXCEPT !.parts = <<c1, c2>>]

-----------------------------------------------------------------------------
(* Outbound frames *)

DoneFrame == [sse |-> "done"]
Json(o) == [sse |-> "json", obj |-> o]
ContentFrame(c) == Json([content |-> c])
TokenFrame(c, id, ts) ==
  Json([event |-> "token", data |-> [chunk |-> c, id |-> id, timestamp |-> ts]])
ErrorFrame(d) == Json([error |-> [detail |-> d]])
\* complete_data of the end event: session_id only when stats.session_id is set
EndCompleteFrame(c, sid) ==
  IF sid # "null"
  THEN Json([id |-> "langflow-complete", complete |-> TRUE, content |-> c,
             session_id |-> sid])
  ELSE Json([id |-> "langflow-complete", complete |-> TRUE, content |-> c])
\* complete_response at the end of the stream: session_id always a key
FinalCompleteFrame(c, sid) ==
  Json([id |-> "langflow-complete", complete |-> TRUE, content |-> c,
        session_id |-> sid])
\* the flush of process_stream_chunk when the upstream sends [DONE]
AccumulatedFrame(c) == Json([accumulated_content |-> c])

-----------------------------------------------------------------------------
(* process_json_data *)

\* content of one inner_output, "" when nothing is extracted
LegacyContent(io) ==
  IF io.om # "none"
  THEN (IF io.om = "msg" THEN io.omv ELSE "")
  ELSE IF io.rm = "text" THEN io.rmv ELSE ""

RECURSIVE LegacyGroup(_)
LegacyGroup(group) ==
  IF group = <<>> THEN <<>>
  ELSE LET c == LegacyContent(Head(group)) IN
       (IF c # "" THEN <<c>> ELSE <<>>) \o LegacyGroup(Tail(group))

\* the inner outputs in the order the two loops visit them
RECURSIVE InnerOutputs(_)
InnerOutputs(outputs) ==
  IF outputs = <<>> THEN <<>> ELSE Head(outputs) \o InnerOutputs(Tail(outputs))

\* a content that is a number: `content[:100]` of the log line raises TypeError
ContentRaises(io) == io.om = "none" /\ io.rm = "number"

\* the inner outputs handled before the first one that raises
RECURSIVE UntilRaise(_)
UntilRaise(ios) ==
  IF ios = <<>> \/ ContentRaises(Head(ios)) THEN <<>>
  ELSE <<Head(ios)>> \o UntilRaise(Tail(ios))

\* the loops over result.outputs are left by an exception
LegacyRaises(outputs) ==
  Len(UntilRaise(InnerOutputs(outputs))) < Len(InnerOutputs(outputs))

\* the contents yielded for result.outputs, in order
LegacyContents(outputs) == LegacyGroup(UntilRaise(InnerOutputs(outputs)))

RECURSIVE Concat(_)
Concat(ss) == IF ss = <<>> THEN "" ELSE Head(ss) \o Concat(Tail(ss))

HasResult(c) == c.kind \in {"end", "legacy"}

SynthId(id) == IF id # "" THEN id ELSE "uuid4"
SynthTimestamp(ts) == IF ts # "" THEN ts ELSE "utcnow"

\* variant: the fragment is yielded but not accumulated
AccumulateDropped(acc, c) == acc

\* `stats.accumulated_content += content` after a yielded fragment
Accumulate(acc, c) == acc \o c

\* process_json_data(json_data) for a JSON object: the frames it yields, the
\* accumulated content afterwards, and whether it was left by an exception
process_json_data(c, acc) ==
  IF HasResult(c)
  THEN LET cs == LegacyContents(c.result.outputs) IN
       [frames |-> [i \in 1..Len(cs) |-> ContentFrame(cs[i])],
        acc |-> Accumulate(acc, Concat(cs)),
        failed |-> LegacyRaises(c.result.outputs)]
  ELSE IF c.kind = "token" /\ c.s # ""
  THEN [frames |-> <<TokenFrame(c.s, SynthId(c.id), SynthTimestamp(c.ts))>>,
        acc |-> Accumulate(acc, c.s), failed |-> FALSE]
  ELSE [frames |-> <<>>, acc |-> acc, failed |-> FALSE]

-----------------------------------------------------------------------------
(* process_stream_chunk *)

\* inner loop of the end event: the text of the first inner_output that has
\* results.message.data.text (the loop breaks there, empty or not)
RECURSIVE EndGroupText(_)
EndGroupText(group) ==
  IF group = <<>> THEN ""
  ELSE IF Head(group).rm = "text" THEN Head(group).rmv
  ELSE EndGroupText(Tail(group))

\* outer loop: stops at the first group that gave a non-empty text
RECURSIVE EndOutputsText(_)
EndOutputsText(outputs) ==
  IF outputs = <<>> THEN ""
  ELSE LET t == EndGroupText(Head(outputs)) IN
       IF t # "" THEN t ELSE EndOutputsText(Tail(outputs))

\* the loops of the end event meet a text that is a number before they
\* break: `final_content[:100]` of the log line raises TypeError
RECURSIVE EndGroupRaises(_)
EndGroupRaises(group) ==
  IF group = <<>> THEN FALSE
  ELSE IF Head(group).rm = "number" THEN TRUE
  ELSE IF Head(group).rm = "text" THEN FALSE
  ELSE EndGroupRaises(Tail(group))

RECURSIVE EndOutputsRaises(_)
EndOutputsRaises(outputs) ==
  IF outputs = <<>> THEN FALSE
  ELSE IF EndGroupRaises(Head(outputs)) THEN TRUE
  ELSE IF EndGroupText(Head(outputs)) # "" THEN FALSE
  ELSE EndOutputsRaises(Tail(outputs))

EndRaises(result) == ~result.msgKey /\ EndOutputsRaises(result.outputs)

\* final_content of an end event ("" when none)
FinalContent(result) ==
  IF result.msgKey THEN result.message ELSE EndOutputsText(result.outputs)

\* `stats.accumulated_content = final_content`
ReplaceAccumulated(acc, final) == final

ParseErrorDetail == "data format could not be parsed"
ProcessErrorDetail == "data processing exception"

\* the [DONE] branch: flush, then the sentinel
DoneBranch(acc) ==
  (IF acc # "" THEN <<AccumulatedFrame(acc)>> ELSE <<>>) \o <<DoneFrame>>

\* `except Exception as e:` of process_stream_chunk: what was yielded and
\* accumulated before the exception stays, then one Error frame
Handled(r) ==
  [frames |-> r.frames \o (IF r.failed THEN <<ErrorFrame(ProcessErrorDetail)>>
                           ELSE <<>>),
   acc |-> r.acc]

\* chunk text starts with `data:`; all `data:` are removed from the text, so
\* several events in one chunk do not parse as JSON
PrefixedChunk(c, acc, sid) ==
  CASE c.kind = "done" -> [frames |-> DoneBranch(acc), acc |-> acc]
    [] c.kind \in {"text", "blank", "joined"} ->
         [frames |-> <<ErrorFrame(ParseErrorDetail)>>, acc |-> acc]
    [] c.kind = "nondict" ->
         [frames |-> <<ErrorFrame(ProcessErrorDetail)>>, acc |-> acc]
    [] OTHER -> Handled(process_json_data(c, acc))

\* chunk text does not start with `data:`
BareChunk(c, acc, sid) ==
  CASE c.kind \in {"text", "done", "joined"} ->
         [frames |-> <<ContentFrame(c.s)>>, acc |-> Accumulate(acc, c.s)]
    [] c.kind = "blank" -> [frames |-> <<>>, acc |-> acc]
    [] c.kind = "nondict" ->
         [frames |-> <<ErrorFrame(ProcessErrorDetail)>>, acc |-> acc]
    [] c.kind = "token" ->
         IF c.s # ""
         THEN [frames |-> <<ContentFrame(c.s)>>, acc |-> Accumulate(acc, c.s)]
         ELSE [frames |-> <<>>, acc |-> acc]
    [] c.kind = "end" ->
         LET final == FinalContent(c.result) IN
         IF EndRaises(c.result)
         THEN [frames |-> <<ErrorFrame(ProcessErrorDetail)>>, acc |-> acc]
         ELSE IF final # ""
         THEN [frames |-> <<EndCompleteFrame(final, sid)>>,
               acc |-> ReplaceAccumulated(acc, final)]
         ELSE [frames |-> <<>>, acc |-> acc]
    [] c.kind = "add_message" -> [frames |-> <<>>, acc |-> acc]
    [] OTHER -> Handled(process_json_data(c, acc))

\* process_stream_chunk: raised says the decode of line 187 threw, which
\* escapes to the caller; counted says stats.chunk_count was incremented
process_stream_chunk(c, acc, sid) ==
  IF c.kind = "undecodable"
  THEN [frames |-> <<>>, acc |-> acc, raised |-> TRUE, counted |-> FALSE]
  ELSE LET r == IF c.pref THEN PrefixedChunk(c, acc, sid)
                ELSE BareChunk(c, acc, sid) IN
       [frames |-> r.frames, acc |-> r.acc, raised |-> FALSE, counted |-> TRUE]

-----------------------------------------------------------------------------
(* langflow_stream_generator *)

\* the chunks the upstream may deliver in this model
R_msg == Result(TRUE, "m", <<>>)
R_emptymsg == Result(TRUE, "", << <<InnerOutput("none", "", "text", "t")>> >>)
R_text == Result(FALSE, "", << <<InnerOutput("none", "", "text", "t")>> >>)
R_om == Result(FALSE, "", << <<InnerOutput("msg", "o", "none", "")>> >>)
R_two == Result(FALSE, "",
                << <<InnerOutput("none", "", "text", ""),
                     InnerOutput("none", "", "text", "t")>>,
                   <<InnerOutput("msg", "o", "text", "u")>> >>)
R_none == Result(FALSE, "", <<>>)
R_sid == [R_msg EXCEPT !.session_id = "s1"]
R_num == Result(FALSE, "",
                << <<InnerOutput("none", "", "text", "t"),
                     InnerOutput("none", "", "number", "")>> >>)
R_number == Result(FALSE, "", << <<InnerOutput("none", "", "number", "")>> >>)

\* the members of the JSON objects without event and data
FieldSets ==
  {[NoFields EXCEPT !.content = "c"], [NoFields EXCEPT !.delta = "d"],
   [NoFields EXCEPT !.text = "t"], [NoFields EXCEPT !.response = "r"],
   [NoFields EXCEPT !.text = "t", !.response = "r"],
   [NoFields EXCEPT !.content = "c", !.text = "t"],
   [NoFields EXCEPT !.error = "boom"]}

TokenA == UpstreamChunk("token", TRUE, "a", "", "", NoResult)
TokenB == UpstreamChunk("token", TRUE, "b", "", "", NoResult)
BareTokenA == UpstreamChunk("token", FALSE, "a", "", "", NoResult)
BareTokenB == UpstreamChunk("token", FALSE, "b", "", "", NoResult)

Chunks ==
  {UpstreamChunk("token", FALSE, s, "", "", NoResult) : s \in {"", "a", "b"}}
  \cup {UpstreamChunk("token", TRUE, s, "", "", NoResult) : s \in {"", "a"}}
  \cup {UpstreamChunk("token", TRUE, "a", "u1", "ts1", NoResult)}
  \cup {UpstreamChunk("end", p, "", "", "", r) :
          p \in BOOLEAN, r \in {R_msg, R_emptymsg, R_text, R_om, R_two, R_none}}
  \cup {UpstreamChunk("end", FALSE, "", "", "", R_sid)}
  \cup {UpstreamChunk("token", FALSE, "a", "u1", "ts1", NoResult)}
  \cup {UpstreamChunk("legacy", p, "", "", "", r) :
          p \in BOOLEAN, r \in {R_text, R_two}}
  \cup {UpstreamChunk(k, p, "", "", "", NoResult) :
          k \in {"add_message", "other", "nondict", "blank"}, p \in BOOLEAN}
  \cup {UpstreamChunk("text", p, "x", "", "", NoResult) : p \in BOOLEAN}
  \cup {UpstreamChunk("done", p, "[DONE]", "", "", NoResult) : p \in BOOLEAN}
  \cup {UpstreamChunk("undecodable", FALSE, "", "", "", NoResult)}
  \cup {UpstreamChunk(k, p, "", "", "", r) :
          k \in {"end", "legacy"}, p \in BOOLEAN, r \in {R_num, R_number}}
  \cup {ObjectChunk(p, f) : p \in BOOLEAN, f \in FieldSets}
  \cup {JoinedChunk(TokenA, TokenB, "raw"), JoinedChunk(BareTokenA, BareTokenB, "raw")}

\* statuses of a non-ok upstream answer
Statuses == {401, 403, 404, 500, 503, 418}

StatusMessage(status) ==
  CASE status = 401 -> "authentication failed"
    [] status = 403 -> "access denied"
    [] status = 404 -> "workflow does not exist"
    [] status = 500 -> "internal server error"
    [] status = 503 -> "service unavailable"
    [] OTHER -> "request failed (status code)"

\* an exception other than asyncio.TimeoutError, by the words str(e) holds
Exceptions ==
  {{}, {"connection"}, {"timeout"}, {"ssl"}, {"permission"},
   {"connection", "timeout"}}

GeneratorErrorMessage(words) ==
  IF "connection" \in words \/ "network" \in words
  THEN "network connection error"
  ELSE IF "timeout" \in words THEN "request timed out"
  ELSE IF "ssl" \in words \/ "certificate" \in words
  THEN "ssl certificate verification failed"
  ELSE IF "permission" \in words \/ "access" \in words
  THEN "access permission error"
  ELSE "system error"

TimeoutDetail == "workflow execution timed out: exceeded <timeout> seconds"
ChunkErrorDetail == "data stream processing exception"
NoDataDetail == "server returned no data"
ReadErrorDetail == "data stream read exception"
EmptyAnswerDetail == "agent answer is empty"

\* a frame together with the index of the chunk it was produced from
\* (0: produced by the generator itself)
Tagged(frames, src) == [i \in 1..Len(frames) |-> [frame |-> frames[i], src |-> src]]

Frames(entries) == [i \in 1..Len(entries) |-> entries[i].frame]

\* `if not response.ok:` error frame, then return
StatusBranch(status) == <<ErrorFrame(StatusMessage(status))>>

\* `except asyncio.TimeoutError:` of the session block
TimeoutBranch == <<ErrorFrame(TimeoutDetail)>>

\* the outermost `except Exception as e:`
ExceptionBranch(words) == <<ErrorFrame(GeneratorErrorMessage(words)), DoneFrame>>

\* `if not chunk_processed:` after the read loop
NoChunkBranch(processed) ==
  IF ~processed THEN <<ErrorFrame(NoDataDetail)>> ELSE <<>>

\* after the read loop: complete_response or the empty-answer error, then [DONE]
Completion(acc, sid) ==
  (IF acc # "" THEN <<FinalCompleteFrame(acc, sid)>>
   ELSE <<ErrorFrame(EmptyAnswerDetail)>>) \o <<DoneFrame>>

\* variant: the read error ends the stream at once, the partial content is dropped
ReadErrorFramesNoCompletion(acc, sid) == <<ErrorFrame(ReadErrorDetail), DoneFrame>>

\* `except Exception as stream_error:` then the completion step
ReadErrorFrames(acc, sid) == <<ErrorFrame(ReadErrorDetail)>> \o Completion(acc, sid)

\* variant: the exception of a chunk is not turned into a frame
ChunkFramesUnhandled(r) == r.frames

\* the frames of one chunk as the read loop yields them
ChunkFrames(r) == IF r.raised THEN <<ErrorFrame(ChunkErrorDetail)>> ELSE r.frames

\* variant: the streaming branch is never taken, every call is retried
StreamBranchIgnored(st) == FALSE

\* `if stream:` of call_langflow_api
StreamBranch(st) == st

\* call_langflow_api: a StreamingResponse around the generator, or
\* retry_with_backoff(make_request) with the default parameters
CallLangflowApi ==
  /\ mode = "new"
  /\ IF StreamBranch(stream)
     THEN /\ mode' = "stream"
          /\ UNCHANGED retryVars
     ELSE /\ mode' = "request"
          /\ rpc' = "loop"
          /\ max_retries' = MAX_RETRIES
          /\ backoff_factor' = RETRY_BACKOFF_FACTOR
          /\ UNCHANGED <<retry, attempts, waits, last_exception, thrown, outcome>>
  /\ UNCHANGED <<stream, streamVars, runVars, pureVars>>

\* retry_with_backoff called with explicit max_retries / backoff_factor
CallRetryWithBackoff ==
  /\ mode = "new" /\ ~stream
  /\ \E mr \in 0..MaxRetriesBound, bf \in 1..MaxBackoff :
       /\ max_retries' = mr
       /\ backoff_factor' = bf
  /\ mode' = "request"
  /\ rpc' = "loop"
  /\ UNCHANGED <<stream, retry, attempts, waits, last_exception, thrown, outcome,
                 streamVars, runVars, pureVars>>

\* session.post answered with an ok status: the read loop starts
ConnectOk ==
  /\ mode = "stream" /\ pc = "idle"
  /\ posts' = posts + 1
  /\ response_status' = 200
  /\ pc' = "streaming"
  /\ session' = "open"
  /\ UNCHANGED <<runVars, pureVars, mode, stream, retryVars, how, nread, chunk_processed, chunk_count,
                 accumulated_content, session_id, pending, out>>

\* session.post answered with a non-ok status
ConnectStatus ==
  /\ mode = "stream" /\ pc = "idle"
  /\ posts' = posts + 1
  /\ \E status \in Statuses :
       /\ response_status' = status
       /\ pending' = Tagged(StatusBranch(status), 0)
  /\ pc' = "finishing"
  /\ session' = "open"
  /\ how' = "status"
  /\ UNCHANGED <<runVars, pureVars, mode, stream, retryVars, nread, chunk_processed, chunk_count,
                 accumulated_content, session_id, out>>

\* session.post raised asyncio.TimeoutError
ConnectTimeout ==
  /\ mode = "stream" /\ pc = "idle"
  /\ posts' = posts + 1
  /\ pending' = Tagged(TimeoutBranch, 0)
  /\ pc' = "finishing"
  /\ session' = "open"
  /\ how' = "connect_timeout"
  /\ UNCHANGED <<runVars, pureVars, mode, stream, retryVars, response_status, nread, chunk_processed, chunk_count,
                 accumulated_content, session_id, out>>

\* session.post raised another exception (connection refused, ssl, ...): it
\* leaves the `async with` of the session before the handler yields
ConnectError ==
  /\ mode = "stream" /\ pc = "idle"
  /\ posts' = posts + 1
  /\ \E words \in Exceptions : pending' = Tagged(ExceptionBranch(words), 0)
  /\ pc' = "finishing"
  /\ session' = "closed"
  /\ how' = "connect_error"
  /\ UNCHANGED <<runVars, pureVars, mode, stream, retryVars, response_status, nread, chunk_processed, chunk_count,
                 accumulated_content, session_id, out>>

\* variant: the exception of a chunk ends the read loop
AbortsOnFailure(r) == IF r.raised THEN "finishing" ELSE "streaming"

\* `except Exception as chunk_error:` inside the loop: after the Error frame
\* the loop goes on with the next chunk
LoopAfterChunk(r) == "streaming"

\* one iteration of `async for chunk in response.content.iter_chunks()`
ReadChunk ==
  /\ mode = "stream" /\ pc = "streaming" /\ pending = <<>>
  /\ nread < MaxChunks
  /\ \E c \in Chunks :
       LET r == process_stream_chunk(c, accumulated_content, session_id) IN
       /\ pending' = Tagged(ChunkFrames(r), nread + 1)
       /\ accumulated_content' = r.acc
       /\ chunk_count' = IF r.counted THEN chunk_count + 1 ELSE chunk_count
       /\ pc' = LoopAfterChunk(r)
  /\ nread' = nread + 1
  /\ chunk_processed' = TRUE
  /\ UNCHANGED <<runVars, pureVars, mode, stream, retryVars, session, how, posts,
                 response_status, session_id, out>>

\* iter_chunks() raised (payload error, or asyncio.TimeoutError mid-stream):
\* caught by `except Exception as stream_error`, then the completion step
ReadError ==
  /\ mode = "stream" /\ pc = "streaming" /\ pending = <<>>
  /\ \E e \in {"read_error", "read_timeout"} : how' = e
  /\ pending' = Tagged(ReadErrorFrames(accumulated_content, session_id), 0)
  /\ pc' = "finishing"
  /\ UNCHANGED <<runVars, pureVars, mode, stream, retryVars, session, posts, response_status, nread,
                 chunk_processed, chunk_count,
                 accumulated_content, session_id, out>>

\* the upstream closed the body normally: the loop ends
UpstreamClose ==
  /\ mode = "stream" /\ pc = "streaming" /\ pending = <<>>
  /\ pending' = Tagged(NoChunkBranch(chunk_processed)
                       \o Completion(accumulated_content, session_id), 0)
  /\ pc' = "finishing"
  /\ how' = "normal"
  /\ UNCHANGED <<runVars, pureVars, mode, stream, retryVars, session, posts, response_status, nread,
                 chunk_processed, chunk_count,
                 accumulated_content, session_id, out>>

\* variant: a frame overtakes the frames yielded before it
DeliverFront(received, e) == <<e>> \o received

\* `yield processed_chunk`: the consumer receives the frames in yield order
Deliver(received, e) == Append(received, e)

\* the consumer takes the next frame the generator yields
Yield ==
  /\ mode = "stream" /\ pc \in {"streaming", "finishing"} /\ pending # <<>>
  /\ out' = Deliver(out, Head(pending))
  /\ pending' = Tail(pending)
  /\ pc' = IF pc = "finishing" /\ Len(pending) = 1 THEN "closed" ELSE pc
  /\ session' = IF pc' = "closed" THEN "closed" ELSE session
  /\ UNCHANGED <<runVars, pureVars, mode, stream, retryVars, how, posts, response_status, nread,
                 chunk_processed,
                 chunk_count, accumulated_content, session_id>>

\* variant: the session of a cancelled call is left as it is
SessionLeaked(s) == s

\* leaving `async with create_aiohttp_session(timeout) as session` closes
\* the session, if the call had entered it
ReleaseSession(s) == IF s = "open" THEN "closed" ELSE s

\* the consumer closes the generator (client disconnect): GeneratorExit /
\* CancelledError is no Exception, so no handler runs and nothing is yielded
Cancel ==
  /\ mode = "stream" /\ pc \in {"idle", "streaming", "finishing"}
  /\ pc' = "cancelled"
  /\ session' = ReleaseSession(session)
  /\ how' = "cancelled"
  /\ pending' = <<>>
  /\ UNCHANGED <<runVars, pureVars, mode, stream, retryVars, posts, response_status, nread,
                 chunk_processed, chunk_count,
                 accumulated_content, session_id, out>>

-----------------------------------------------------------------------------
(* run_workflow (routers/workflows.py) *)

\* a Python dict is a function from its keys; {} is EmptyDict
EmptyDict == [k \in {} |-> ""]
Get(d, k, default) == IF k \in DOMAIN d THEN d[k] ELSE default

MaxMessages == 3        \* messages the request carries at most

\* one entry of form_data["messages"]; hasContent: "content" is a key
Message(role, hasContent, content) ==
  [role |-> role, hasContent |-> hasContent, content |-> content]

MessageEntries ==
  {Message("user", TRUE, c) : c \in {"hello", "hi", "  ", ""}}
  \cup {Message("assistant", TRUE, "ok"), Message("user", FALSE, "")}

RECURSIVE SeqsUpTo(_, _)
SeqsUpTo(S, n) ==
  IF n = 0 THEN {<<>>}
  ELSE SeqsUpTo(S, n - 1)
         \cup {Append(q, e) : q \in {r \in SeqsUpTo(S, n - 1) : Len(r) = n - 1}, e \in S}

\* str.strip() on the texts of the model
Strip(c) == IF c \in {"", " ", "  "} THEN "" ELSE c

\* `for msg in reversed(messages):` the content of the first entry from the
\* end with role "user" and a content key, "" when there is none
RECURSIVE LatestMessage(_)
LatestMessage(ms) ==
  IF ms = <<>> THEN ""
  ELSE LET m == ms[Len(ms)] IN
       IF m.role = "user" /\ m.hasContent THEN m.content
       ELSE LatestMessage(SubSeq(ms, 1, Len(ms) - 1))

\* variant: the check of the latest message is missing
NeverUnusable(lm) == FALSE

\* `if not latest_message or latest_message.strip() == "":`
Unusable(lm) == lm = "" \/ Strip(lm) = ""

\* the fields of the AgentModel that get_agent_by_id returns
AgentModelFields ==
  {"id", "base_app_id", "user_id", "name", "description", "access_control",
   "is_deleted", "updated_at", "created_at"}

\* attribute access on a model object raises AttributeError for another name
HasAttr(fields, name) == name \in fields

\* variant: every workflow id resolves
WorkflowAlwaysFound(row) == TRUE

\* Workflows.get_workflow_by_id: None when there is no row
WorkflowFound(row) == row.found

\* Agents.get_agent_by_id: None for no id, no row, or a deleted row
AgentFound(id, row) == id # "none" /\ row = "live"

\* knowledge dicts and params dicts of the model
KnowledgeFull ==
  ("items" :> <<"ds1", "ds2">>)
    @@ ("settings" :> [searchMode |-> "fullText", limit |-> 5, similarity |-> "0.8",
                       usingReRank |-> FALSE,
                       datasetSearchUsingExtensionQuery |-> TRUE])
KnowledgeItemsOnly == "items" :> <<"ds1">>
KnowledgePartial ==
  ("items" :> <<"ds2">>) @@ ("settings" :> ("limit" :> 5))
KnowledgeNoItems == ("items" :> <<>>) @@ ("settings" :> ("limit" :> 5))
KnowledgeSettingsOnly == "settings" :> ("searchMode" :> "fullText")

ParamDicts ==
  {EmptyDict,
   "knowledge" :> KnowledgeFull,
   "knowledge" :> KnowledgeItemsOnly,
   "knowledge" :> KnowledgePartial,
   "knowledge" :> KnowledgeNoItems,
   "knowledge" :> KnowledgeSettingsOnly,
   "knowledge" :> EmptyDict,
   ("knowledge" :> KnowledgeItemsOnly) @@ ("app_token" :> "tok"),
   "app_token" :> "tok"}

\* `merged_params = {**workflow_params, **agent_params}`
Merge(workflow_params, agent_params) == agent_params @@ workflow_params

FASTGPT_SEARCH_URL == "<FASTGPT_BASE_URL>/api/core/dataset/searchTest"

\* kb_params of the request
KbParams(items, settings, lm) ==
  [datasetId |-> items[1],
   text |-> lm,
   searchMode |-> Get(settings, "searchMode", "embedding"),
   limit |-> Get(settings, "limit", 10),
   similarity |-> Get(settings, "similarity", "0.5"),
   usingReRank |-> Get(settings, "usingReRank", TRUE),
   datasetSearchUsingExtensionQuery |->
     Get(settings, "datasetSearchUsingExtensionQuery", FALSE)]

\* input_value built from the latest message and the merged params
InputValue(lm, merged) ==
  LET knowledge_params == Get(merged, "knowledge", EmptyDict)
      kb_settings == Get(knowledge_params, "settings", EmptyDict)
      kb_items == Get(knowledge_params, "items", <<>>) IN
  IF knowledge_params # EmptyDict /\ kb_items # <<>>
  THEN [user_input |-> lm,
        kb_params |-> KbParams(kb_items, kb_settings, lm),
        url_value |-> FASTGPT_SEARCH_URL]
  ELSE [user_input |-> lm]

\* langflow_data; input_value stands for json.dumps(input_value)
LangflowData(input_value) ==
  [input_value |-> input_value, input_type |-> "chat", output_type |-> "chat"]

\* `stream = params.get("stream", True)`
StreamParam(p) == p # "false"

NoResponse == [status |-> 0, detail |-> ""]
HttpError(status, detail) == [status |-> status, detail |-> detail]

NoUserMessageDetail == "no valid user message found"
NotFoundDetail == "ERROR_MESSAGES.NOT_FOUND"
\* `detail=f"Workflow processing error: {str(e)}"` of the outer handler:
\* str(e) is put into the detail whole
WorkflowProcessingError(e) == "Workflow processing error: " \o e

\* str() of the HTTPException raised for an empty api_url
ApiPathExceptionText == "400: Langflow API path not configured for this workflow"
\* str() of the AttributeError of `agent.params`
AttributeErrorText == "'AgentModel' object has no attribute 'params'"

ApiPathDetail == WorkflowProcessingError(ApiPathExceptionText)
NoParamsAttrDetail == WorkflowProcessingError(AttributeErrorText)

\* the body of the outer `try:` up to the call of call_langflow_api: an
\* exception raised in it becomes HTTP 500 `Workflow processing error`
PrepareCall(lm, base, row) ==
  IF base \o row.api_path = ""
  THEN [raised |-> TRUE, detail |-> ApiPathDetail, data |-> EmptyDict]
  ELSE IF ~HasAttr(AgentModelFields, "params")
  THEN [raised |-> TRUE, detail |-> NoParamsAttrDetail, data |-> EmptyDict]
  ELSE [raised |-> FALSE, detail |-> "",
        data |-> LangflowData(InputValue(lm, Merge(row.params, EmptyDict)))]

\* `result = await call_langflow_api(...)` and the two except clauses around
\* it: a streaming call returns the StreamingResponse at once; a plain call
\* is retried by retry_with_backoff and its failure is raised as HTTP 500
\* `Error calling Langflow API`, which the outer clause wraps again
CallResult(streaming, status) ==
  LET r == process_response([exc |-> "", status |-> status,
                             ctype |-> "application/json", body |-> "json"]) IN
  IF streaming
  THEN [attempts |-> 0, response |-> HttpError(200, "StreamingResponse")]
  ELSE IF r.ok
  THEN [attempts |-> 1, response |-> HttpError(200, r.msg)]
  ELSE [attempts |-> MAX_RETRIES + 1,
        response |-> HttpError(500,
          "Workflow processing error: 500: Error calling Langflow API: " \o r.msg)]

\* run_workflow from the request to its answer
RunWorkflow ==
  /\ run_pc = "start"
  /\ latest_message' = LatestMessage(messages)
  /\ IF Unusable(latest_message')
     THEN /\ response' = HttpError(400, NoUserMessageDetail)
          /\ run_pc' = "done"
          /\ UNCHANGED <<mode, stream, attempts, langflow_data>>
     ELSE IF ~WorkflowFound(workflow_row)
     THEN /\ response' = HttpError(404, NotFoundDetail)
          /\ run_pc' = "done"
          /\ UNCHANGED <<mode, stream, attempts, langflow_data>>
     ELSE IF ~AgentFound(agent_id, agent_row)
     THEN /\ response' = HttpError(404, NotFoundDetail)
          /\ run_pc' = "done"
          /\ UNCHANGED <<mode, stream, attempts, langflow_data>>
     ELSE LET c == PrepareCall(latest_message', base_url, workflow_row) IN
          IF c.raised
          THEN /\ response' = HttpError(500, c.detail)
               /\ run_pc' = "done"
               /\ UNCHANGED <<mode, stream, attempts, langflow_data>>
          ELSE LET r == CallResult(StreamParam(req_stream), upstream_status) IN
               /\ langflow_data' = c.data
               /\ stream' = StreamParam(req_stream)
               /\ attempts' = r.attempts
               /\ response' = r.response
               /\ run_pc' = "done"
               /\ UNCHANGED mode
  /\ UNCHANGED <<max_retries, backoff_factor, rpc, retry, waits, last_exception,
                 thrown, outcome, streamVars, messages, req_stream, agent_id,
                 base_url, workflow_row, agent_row, upstream_status, pureVars>>

\* no run_workflow request: the state of the run variables in Spec
NoRequest ==
  /\ run_pc = "idle"
  /\ messages = <<>>
  /\ req_stream = "absent"
  /\ agent_id = "none"
  /\ base_url = ""
  /\ workflow_row = [found |-> FALSE, params |-> EmptyDict, api_path |-> ""]
  /\ agent_row = "missing"
  /\ latest_message = ""
  /\ langflow_data = EmptyDict
  /\ upstream_status = 0
  /\ response = NoResponse

-----------------------------------------------------------------------------
(* format_url (utils/workflow.py) *)

\* A text is a sequence of pieces: "http:", "https:", "/" and plain words
Slash == <<"/">>
HttpScheme == <<"http:", "/", "/">>
HttpsScheme == <<"https:", "/", "/">>

MaxSlashes == 2         \* slashes added at the end of base_url / start of path

RECURSIVE Slashes(_)
Slashes(n) == IF n = 0 THEN <<>> ELSE Slash \o Slashes(n - 1)

\* str.startswith(prefix)
StartsWith(t, prefix) ==
  Len(t) >= Len(prefix) /\ SubSeq(t, 1, Len(prefix)) = prefix

\* variant: the trailing slashes of base_url are kept
KeepTrailing(t) == t

\* str.rstrip('/')
RECURSIVE RStrip(_)
RStrip(t) ==
  IF t # <<>> /\ t[Len(t)] = "/" THEN RStrip(SubSeq(t, 1, Len(t) - 1)) ELSE t

\* str.lstrip('/')
RECURSIVE LStrip(_)
LStrip(t) == IF t # <<>> /\ Head(t) = "/" THEN LStrip(Tail(t)) ELSE t

format_url(b, p) ==
  IF StartsWith(p, HttpScheme) \/ StartsWith(p, HttpsScheme)
  THEN p
  ELSE RStrip(b) \o Slash \o LStrip(p)

\* texts without a trailing slash, to build base_url from
BaseCores ==
  {<<>>, <<"x">>, <<"http:">>, HttpScheme \o <<"x">>, HttpsScheme \o <<"x">>,
   HttpScheme \o <<"x", "/", "v1">>, <<"x", "/", "v1">>}

\* texts without a leading slash, to build path from
PathCores ==
  {<<>>, <<"y">>, <<"y", "/", "z">>, <<"y", "/">>, <<"http:", "/", "y">>,
   HttpScheme \o <<"x", "/", "y">>, HttpsScheme \o <<"x">>, HttpScheme}

NoUrl == <<"?">>

\* format_url(base_url, path)
FormatUrl ==
  /\ url_pc = "args"
  /\ url' = format_url(url_args.base_url, url_args.path)
  /\ url_pc' = "once"
  /\ UNCHANGED <<mode, stream, retryVars, streamVars, runVars, url_args, url_again,
                 callVars, unitVars, otherVars>>

\* format_url(base_url, url): the result is formatted again
FormatUrlAgain ==
  /\ url_pc = "once"
  /\ url_again' = format_url(url_args.base_url, url)
  /\ url_pc' = "twice"
  /\ UNCHANGED <<mode, stream, retryVars, streamVars, runVars, url_args, url,
                 callVars, unitVars, otherVars>>

\* format_url is not called
NoFormatUrl ==
  /\ url_pc = "idle"
  /\ url_args = [base_url |-> <<>>, path |-> <<>>, base_core |-> <<>>,
                 path_core |-> <<>>]
  /\ url = NoUrl
  /\ url_again = NoUrl

-----------------------------------------------------------------------------
(* Concurrent streaming calls: each runs langflow_stream_generator *)

CallIds == {1, 2}
MaxCallChunks == 2      \* chunks each of the concurrent calls reads at most

\* the units the upstream of a concurrent call may deliver
CallChunks ==
  {UpstreamChunk("token", FALSE, s, "", "", NoResult) : s \in {"a", "b"}}
  \cup {UpstreamChunk("token", TRUE, "a", "u1", "ts1", NoResult),
        UpstreamChunk("end", FALSE, "", "", "", R_msg),
        UpstreamChunk("end", TRUE, "", "", "", R_msg),
        UpstreamChunk("legacy", TRUE, "", "", "", R_text),
        UpstreamChunk("done", TRUE, "[DONE]", "", "", NoResult)}

\* variant: one StreamStats object serves every call
SharedStats(i) == 1

\* `stats = StreamStats(...)` is a local of the generator: one per call
StatsOf(i) == i

NoCalls == [i \in CallIds |-> [pc |-> "idle", units |-> <<>>, out |-> <<>>]]
NoCallStats == [i \in CallIds |-> ""]

\* call i: one iteration of the read loop, on its own upstream
CallReadChunk(i) ==
  /\ calls[i].pc = "streaming"
  /\ Len(calls[i].units) < MaxCallChunks
  /\ \E c \in CallChunks :
       LET r == process_stream_chunk(c, call_stats[StatsOf(i)], "null") IN
       /\ calls' = [calls EXCEPT ![i].units = Append(@, c),
                                 ![i].out = @ \o ChunkFrames(r)]
       /\ call_stats' = [call_stats EXCEPT ![StatsOf(i)] = r.acc]
  /\ UNCHANGED <<mode, stream, retryVars, streamVars, runVars, urlVars, unitVars,
                 otherVars>>

\* call i: its upstream closes the body, the completion step runs
CallUpstreamClose(i) ==
  /\ calls[i].pc = "streaming"
  /\ calls' = [calls EXCEPT
       ![i].pc = "closed",
       ![i].out = @ \o NoChunkBranch(calls[i].units # <<>>)
                    \o Completion(call_stats[StatsOf(i)], "null")]
  /\ UNCHANGED <<mode, stream, retryVars, streamVars, runVars, urlVars, unitVars,
                 otherVars, call_stats>>

-----------------------------------------------------------------------------
(* process_stream_chunk applied to one unit *)

NoStats == [accumulated_content |-> "", session_id |-> "null"]
NoUnit == UpstreamChunk("none", FALSE, "", "", "", NoResult)

\* process_stream_chunk(chunk, stats, process_json_data), run to its end;
\* an exception of the decode is answered by the caller's error frame
ProcessStreamChunk ==
  /\ unit_pc = "ready"
  /\ LET r == process_stream_chunk(unit, stats_before.accumulated_content,
                                   stats_before.session_id) IN
     /\ yielded' = ChunkFrames(r)
     /\ stats_after' = [accumulated_content |-> r.acc,
                        session_id |-> stats_before.session_id]
  /\ unit_pc' = "done"
  /\ UNCHANGED <<mode, stream, retryVars, streamVars, runVars, urlVars, callVars,
                 otherVars, unit, stats_before>>

-----------------------------------------------------------------------------
(* process_response applied to one response *)

MAX_ERROR_LENGTH == 200

\* the length of text[:MAX_ERROR_LENGTH] for a text of length n
ExcerptLength(n) == IF n < MAX_ERROR_LENGTH THEN n ELSE MAX_ERROR_LENGTH

\* the second argument of the WorkflowAPIError process_response raises: the
\* key of the details dict and the length of the text under it
ErrorDetails(r) ==
  IF ~ResponseOk(r.status)
  THEN [key |-> "details", length |-> ExcerptLength(r.len)]
  ELSE IF ContainsHtml(r.ctype) /\ ~ContainsJson(r.ctype)
  THEN [key |-> "content_type", length |-> 0]
  ELSE IF JsonMimetype(r.ctype) /\ r.body # "json"
  THEN [key |-> "response", length |-> ExcerptLength(r.len)]
  ELSE [key |-> "", length |-> 0]

ResponseStatuses == {200, 204, 399, 400, 404, 500}
ContentTypes == {"application/json", "text/html", "text/plain", "application/html+json"}
BodyLengths == {0, 199, 200, 201, 1000}

\* the upstream responses process_response is applied to
Responses ==
  {r \in [status : ResponseStatuses, ctype : ContentTypes,
          body : {"json", "garbage"}, len : BodyLengths] :
     r.body = "json" => r.len > 0}

NoResp == [status |-> 0, ctype |-> "", body |-> "", len |-> 0]
NoRespResult == [ok |-> FALSE, cls |-> "", msg |-> "", details |-> [key |-> "", length |-> 0]]

\* await process_response(response)
ProcessResponse ==
  /\ resp_pc = "ready"
  /\ LET r == process_response(resp) IN
     resp_result' = [ok |-> r.ok, cls |-> r.cls, msg |-> r.msg,
                     details |-> ErrorDetails(resp)]
  /\ resp_pc' = "done"
  /\ UNCHANGED <<mode, stream, retryVars, streamVars, runVars, urlVars, callVars,
                 unitVars, resp, syncVars>>

\* process_response is not applied
NoProcessResponse ==
  /\ resp_pc = "idle"
  /\ resp = NoResp
  /\ resp_result = NoRespResult

\* no get_workflows request
NoSync ==
  /\ table = {}
  /\ upstream = <<>>
  /\ reqs = <<>>

NoOther == NoProcessResponse /\ NoSync

\* no concurrent calls
NoConcurrentCalls ==
  /\ calls = NoCalls
  /\ call_stats = NoCallStats

\* process_stream_chunk is not applied
NoUnitCall ==
  /\ unit_pc = "idle"
  /\ unit = NoUnit
  /\ stats_before = NoStats
  /\ stats_after = NoStats
  /\ yielded = <<>>

\* none of the separately checked parts is running
NoPure == NoFormatUrl /\ NoConcurrentCalls /\ NoUnitCall /\ NoOther

Init ==
  /\ mode = "new"
  /\ stream \in BOOLEAN
  /\ max_retries = MAX_RETRIES
  /\ backoff_factor = RETRY_BACKOFF_FACTOR
  /\ rpc = "idle"
  /\ retry = 0
  /\ attempts = 0
  /\ waits = <<>>
  /\ last_exception = NoException
  /\ thrown = <<>>
  /\ outcome = NoException
  /\ pc = "idle"
  /\ session = "none"
  /\ how = "none"
  /\ posts = 0
  /\ response_status = 0
  /\ nread = 0
  /\ chunk_processed = FALSE
  /\ chunk_count = 0
  /\ accumulated_content = ""
  /\ session_id = "null"
  /\ pending = <<>>
  /\ out = <<>>
  /\ NoRequest
  /\ NoPure

Next ==
  \/ CallLangflowApi
  \/ CallRetryWithBackoff
  \/ RetryAttempt
  \/ RetryExhausted
  \/ ConnectOk
  \/ ConnectStatus
  \/ ConnectTimeout
  \/ ConnectError
  \/ ReadChunk
  \/ ReadError
  \/ UpstreamClose
  \/ Yield
  \/ Cancel

Spec == Init /\ [][Next]_vars

\* the rows a lookup of the workflow id can meet
WorkflowRows ==
  {[found |-> FALSE, params |-> EmptyDict, api_path |-> ""]}
  \cup {[found |-> TRUE, params |-> p, api_path |-> a] :
          p \in ParamDicts, a \in {"", "/api/v1/run/flow1"}}

\* a run_workflow request is received
InitRun ==
  /\ mode = "run"
  /\ stream = TRUE
  /\ max_retries = MAX_RETRIES
  /\ backoff_factor = RETRY_BACKOFF_FACTOR
  /\ rpc = "idle"
  /\ retry = 0
  /\ attempts = 0
  /\ waits = <<>>
  /\ last_exception = NoException
  /\ thrown = <<>>
  /\ outcome = NoException
  /\ pc = "idle"
  /\ session = "none"
  /\ how = "none"
  /\ posts = 0
  /\ response_status = 0
  /\ nread = 0
  /\ chunk_processed = FALSE
  /\ chunk_count = 0
  /\ accumulated_content = ""
  /\ session_id = "null"
  /\ pending = <<>>
  /\ out = <<>>
  /\ run_pc = "start"
  /\ messages \in SeqsUpTo(MessageEntries, MaxMessages)
  /\ req_stream \in {"absent", "true", "false"}
  /\ agent_id \in {"none", "agent1"}
  /\ agent_row \in IF agent_id = "none" THEN {"missing"}
                   ELSE {"missing", "deleted", "live"}
  /\ base_url \in {"", "http://langflow:7860"}
  /\ workflow_row \in WorkflowRows
  /\ upstream_status \in {200, 404}
  /\ latest_message = ""
  /\ langflow_data = EmptyDict
  /\ response = NoResponse
  /\ NoPure

NextRun == RunWorkflow

SpecRun == InitRun /\ [][NextRun]_vars

\* no call of call_langflow_api and no request: the other variables while a
\* pure function is applied
NoCall ==
  /\ mode = "none"
  /\ stream = FALSE
  /\ max_retries = MAX_RETRIES
  /\ backoff_factor = RETRY_BACKOFF_FACTOR
  /\ rpc = "idle"
  /\ retry = 0
  /\ attempts = 0
  /\ waits = <<>>
  /\ last_exception = NoException
  /\ thrown = <<>>
  /\ outcome = NoException
  /\ pc = "idle"
  /\ session = "none"
  /\ how = "none"
  /\ posts = 0
  /\ response_status = 0
  /\ nread = 0
  /\ chunk_processed = FALSE
  /\ chunk_count = 0
  /\ accumulated_content = ""
  /\ session_id = "null"
  /\ pending = <<>>
  /\ out = <<>>
  /\ NoRequest

\* format_url is called with a base_url and a path
InitUrl ==
  /\ NoCall
  /\ url_pc = "args"
  /\ \E bc \in BaseCores, pcore \in PathCores, k \in 0..MaxSlashes, j \in 0..MaxSlashes :
       url_args = [base_url |-> bc \o Slashes(k), path |-> Slashes(j) \o pcore,
                   base_core |-> bc, path_core |-> pcore]
  /\ url = NoUrl
  /\ url_again = NoUrl
  /\ NoConcurrentCalls
  /\ NoUnitCall
  /\ NoOther

NextUrl == FormatUrl \/ FormatUrlAgain

SpecUrl == InitUrl /\ [][NextUrl]_vars

\* two streaming calls have connected and interleave as the event loop likes
InitCalls ==
  /\ NoCall
  /\ NoFormatUrl
  /\ NoUnitCall
  /\ NoOther
  /\ calls = [i \in CallIds |-> [pc |-> "streaming", units |-> <<>>, out |-> <<>>]]
  /\ call_stats = NoCallStats

NextCalls == \E i \in CallIds : CallReadChunk(i) \/ CallUpstreamClose(i)

SpecCalls == InitCalls /\ [][NextCalls]_vars

\* the accumulated contents a chunk can arrive at
StatsBefore ==
  {[accumulated_content |-> a, session_id |-> "null"] : a \in {"", "a", "ab"}}

\* a chunk arrives at process_stream_chunk
InitUnit ==
  /\ NoCall
  /\ NoFormatUrl
  /\ NoConcurrentCalls
  /\ NoOther
  /\ unit_pc = "ready"
  /\ unit \in Chunks
  /\ stats_before \in StatsBefore
  /\ stats_after = stats_before
  /\ yielded = <<>>

NextUnit == ProcessStreamChunk

SpecUnit == InitUnit /\ [][NextUnit]_vars

-----------------------------------------------------------------------------
(* get_workflows and sync_workflows_with_database *)

Requests == {1, 2}
MaxFlows == 2           \* flows the upstream lists at most

\* WorkflowForm.id of a form built without an id (None)
NoId == 0

\* a flow of the upstream list: id ("": no id member), name, and form_ok:
\* name and description are strings, so that WorkflowForm accepts them
Flows == [id : {"", "f1", "f2"}, name : {"n1", "n2"}, form_ok : BOOLEAN]

\* the ids of the flows of a list
FlowIdsOf(flows) == {flows[k].id : k \in 1..Len(flows)} \ {""}

\* the lists the upstream may answer with: its flow ids are unique
UpstreamLists ==
  {fl \in UNION {[1..n -> Flows] : n \in 0..MaxFlows} :
     \A j, k \in 1..Len(fl) : (j # k /\ fl[j].id # "") => fl[j].id # fl[k].id}

\* a row of workflow_app
Row(id, api_path, name) == [id |-> id, api_path |-> api_path, name |-> name]

\* the tables a request may find: api_path is unique
InitialTables == SUBSET {Row(1, "f1", "n1"), Row(2, "f2", "n1"), Row(3, "f3", "n1")}

\* WorkflowForm(name=..., description=..., api_path=flow_id): id stays None
WorkflowForm(flow) == [id |-> NoId, name |-> flow.name, api_path |-> flow.id]

\* Workflows.insert_new_workflow(form): WorkflowModel(**form.model_dump(), ...)
\* is built before the `try:`; its id is a required int, so a form
\* without an id raises ValidationError out of the method
insert_new_workflow(rows, form) ==
  IF form.id = NoId
  THEN [raised |-> TRUE, rows |-> rows]
  ELSE [raised |-> FALSE,
        rows |-> rows \cup {Row(form.id, form.api_path, form.name)}]

\* Workflows.update_workflow_by_id(id, form): the rows with this id
update_workflow_by_id(rows, id, form) ==
  {IF w.id = id THEN [w EXCEPT !.name = form.name] ELSE w : w \in rows}

\* Workflows.delete_workflow_by_id(id) for each id of ids
delete_workflows(rows, ids) == {w \in rows : w.id \notin ids}

\* existing_workflow_ids = {w.api_path: w for w in existing_workflows}
ExistingByPath(rows) ==
  [p \in {w.api_path : w \in rows} |-> CHOOSE w \in rows : w.api_path = p]

NoRequestState ==
  [pc |-> "start", existing |-> <<>>, i |-> 0, api_flow_ids |-> {}, ran |-> FALSE]

\* session.get answered 200 with the flow list: the sync will run
GetFlows(r) ==
  /\ reqs[r].pc = "start"
  /\ reqs' = [reqs EXCEPT ![r].pc = "sync"]
  /\ UNCHANGED <<mode, stream, retryVars, streamVars, runVars, urlVars, callVars,
                 unitVars, respVars, table, upstream>>

\* session.get failed or answered another status: no sync, the table is listed
FetchFailed(r) ==
  /\ reqs[r].pc = "start"
  /\ reqs' = [reqs EXCEPT ![r].pc = "listing"]
  /\ UNCHANGED <<mode, stream, retryVars, streamVars, runVars, urlVars, callVars,
                 unitVars, respVars, table, upstream>>

\* Workflows.get_all_workflows(): the snapshot the whole sync works on
SyncStart(r) ==
  /\ reqs[r].pc = "sync"
  /\ reqs' = [reqs EXCEPT ![r].pc = "flows", ![r].existing = ExistingByPath(table),
                          ![r].i = 1, ![r].api_flow_ids = {}, ![r].ran = TRUE]
  /\ UNCHANGED <<mode, stream, retryVars, streamVars, runVars, urlVars, callVars,
                 unitVars, respVars, table, upstream>>

\* one iteration of `for flow in flows:`; the exception of the insert is
\* caught by the handler around the whole sync, which ends it
SyncFlow(r) ==
  /\ reqs[r].pc = "flows"
  /\ reqs[r].i <= Len(upstream)
  /\ LET flow == upstream[reqs[r].i]
         next == [reqs EXCEPT ![r].i = @ + 1]
         seen == [next EXCEPT ![r].api_flow_ids = @ \cup {flow.id}] IN
     IF flow.id = ""
     THEN reqs' = next /\ UNCHANGED table
     ELSE IF ~flow.form_ok
     THEN reqs' = seen /\ UNCHANGED table
     ELSE IF flow.id \in DOMAIN reqs[r].existing
     THEN /\ reqs' = seen
          /\ table' = IF reqs[r].existing[flow.id].name # flow.name
                      THEN update_workflow_by_id(table, reqs[r].existing[flow.id].id,
                                                 WorkflowForm(flow))
                      ELSE table
     ELSE LET ins == insert_new_workflow(table, WorkflowForm(flow)) IN
          /\ table' = ins.rows
          /\ reqs' = IF ins.raised THEN [seen EXCEPT ![r].pc = "listing"] ELSE seen
  /\ UNCHANGED <<mode, stream, retryVars, streamVars, runVars, urlVars, callVars,
                 unitVars, respVars, upstream>>

\* the loop over existing_workflow_ids: the rows of the snapshot whose
\* api_path the upstream did not list are deleted
SyncDelete(r) ==
  /\ reqs[r].pc = "flows"
  /\ reqs[r].i > Len(upstream)
  /\ table' = delete_workflows(table,
                 {reqs[r].existing[p].id :
                    p \in DOMAIN reqs[r].existing \ reqs[r].api_flow_ids})
  /\ reqs' = [reqs EXCEPT ![r].pc = "listing"]
  /\ UNCHANGED <<mode, stream, retryVars, streamVars, runVars, urlVars, callVars,
                 unitVars, respVars, upstream>>

\* `return Workflows.get_workflows(user.id, user.role)`
ReturnWorkflows(r) ==
  /\ reqs[r].pc = "listing"
  /\ reqs' = [reqs EXCEPT ![r].pc = "done"]
  /\ UNCHANGED <<mode, stream, retryVars, streamVars, runVars, urlVars, callVars,
                 unitVars, respVars, table, upstream>>

\* two get_workflows requests arrive; the upstream answers both with the
\* same list. Requests served by different worker processes interleave
\* between their database calls; in one event loop the sync runs without
\* suspension, which is one of these interleavings
InitSync ==
  /\ NoCall
  /\ NoFormatUrl
  /\ NoConcurrentCalls
  /\ NoUnitCall
  /\ NoProcessResponse
  /\ table \in InitialTables
  /\ upstream \in UpstreamLists
  /\ reqs = [r \in Requests |-> NoRequestState]

NextSync ==
  \E r \in Requests :
    \/ GetFlows(r)
    \/ FetchFailed(r)
    \/ SyncStart(r)
    \/ SyncFlow(r)
    \/ SyncDelete(r)
    \/ ReturnWorkflows(r)

SpecSync == InitSync /\ [][NextSync]_vars

\* a response arrives at process_response
InitResponse ==
  /\ NoCall
  /\ NoFormatUrl
  /\ NoConcurrentCalls
  /\ NoUnitCall
  /\ NoSync
  /\ resp_pc = "ready"
  /\ resp \in Responses
  /\ resp_result = NoRespResult

NextResponse == ProcessResponse

SpecResponse == InitResponse /\ [][NextResponse]_vars

-----------------------------------------------------------------------------
(* Properties *)

OutFrames == Frames(out)

IsJson(f) == f.sse = "json"
IsDone(f) == f = DoneFrame
IsError(f) == IsJson(f) /\ DOMAIN f.obj = {"error"}
IsComplete(f) ==
  /\ IsJson(f)
  /\ {"id", "complete", "content"} \subseteq DOMAIN f.obj
  /\ f.obj.id = "langflow-complete"
  /\ f.obj.complete = TRUE
IsContent(f) == IsJson(f) /\ DOMAIN f.obj = {"content"}
IsTokenEvent(f) ==
  /\ IsJson(f)
  /\ DOMAIN f.obj = {"event", "data"}
  /\ f.obj.event = "token"
  /\ DOMAIN f.obj.data = {"chunk", "id", "timestamp"}
IsToken(f) == IsContent(f) \/ IsTokenEvent(f)

CountOf(P(_), fs) == Cardinality({i \in 1..Len(fs) : P(fs[i])})

Closed == mode = "stream" /\ pc = "closed"
ClosedNormally == Closed /\ how = "normal"

\* C1: every streaming call that is not cancelled ends, however it
\* terminates, with the literal frame `data: [DONE]` as its last frame.
C1_LastFrameIsDone ==
  Closed => (OutFrames # <<>> /\ IsDone(OutFrames[Len(OutFrames)]))

\* C2: a stream whose upstream closes normally (the upstream may itself have
\* sent `data: [DONE]`) carries exactly one `data: [DONE]` frame.
C2_ExactlyOneDone ==
  ClosedNormally => CountOf(IsDone, OutFrames) = 1

\* C3: a stream whose upstream closes normally carries at most one Complete
\* frame (id langflow-complete, complete true), end events included.
C3_AtMostOneComplete ==
  ClosedNormally => CountOf(IsComplete, OutFrames) <= 1

\* C4: when at least one Token/content frame was emitted and the upstream
\* closes normally, a Complete frame precedes the final `[DONE]`, and every
\* Complete frame ever emitted has a non-empty content.
C4_CompleteAfterTokens ==
  /\ \A i \in 1..Len(OutFrames) :
       IsComplete(OutFrames[i]) => OutFrames[i].obj.content # ""
  /\ (ClosedNormally /\ CountOf(IsToken, OutFrames) > 0) =>
       /\ Len(OutFrames) >= 2
       /\ IsDone(OutFrames[Len(OutFrames)])
       /\ IsComplete(OutFrames[Len(OutFrames) - 1])

C4_Witness ==
  /\ ClosedNormally
  /\ CountOf(IsToken, OutFrames) > 0
  /\ IsComplete(OutFrames[Len(OutFrames) - 1])
  /\ OutFrames[Len(OutFrames) - 1].obj.content = "ab"

\* C5: a stream that closes normally without any Token or Complete frame
\* yields exactly one Error frame and then `[DONE]`, and no Complete frame.
C5_OneErrorThenDone ==
  (ClosedNormally /\ CountOf(IsToken, OutFrames) = 0
     /\ CountOf(IsComplete, OutFrames) = 0) =>
    /\ Len(OutFrames) = 2
    /\ IsError(OutFrames[1])
    /\ IsDone(OutFrames[2])

\* C6: every frame emitted is `data: [DONE]` or a JSON object of one of the
\* four shapes {content}, {event:"token", data:{chunk,id,timestamp}},
\* {id:"langflow-complete", complete:true, content, session_id?}, {error:{detail}}.
RecognizedShape(f) ==
  \/ IsDone(f)
  \/ IsContent(f)
  \/ IsTokenEvent(f)
  \/ (IsComplete(f) /\ DOMAIN f.obj \subseteq {"id", "complete", "content", "session_id"})
  \/ (IsError(f) /\ DOMAIN f.obj.error = {"detail"})

C6_OnlyRecognizedShapes ==
  \A i \in 1..Len(OutFrames) : RecognizedShape(OutFrames[i])

\* C7: frames reach the consumer in the order in which their chunks were
\* read: a frame of chunk i precedes every frame of a chunk j > i, the frames
\* the generator adds at the end follow all chunk frames, each frame belongs
\* to one chunk, and a chunk is read only after the frames of the previous
\* one were all delivered.
C7_FramesInChunkOrder ==
  LET all == out \o pending IN
  /\ \A i, j \in 1..Len(all) :
       (i < j /\ all[j].src > 0) => (all[i].src > 0 /\ all[i].src <= all[j].src)
  /\ \A i \in 1..Len(all) : all[i].src \in 0..nread
  /\ \A i \in 1..Len(pending) :
       pending[i].src = (IF pc = "streaming" THEN nread ELSE 0)

C7_Witness ==
  /\ Closed
  /\ \E i, j \in 1..Len(out) :
       /\ i < j
       /\ out[i].src = 1 /\ out[j].src = 3
       /\ IsToken(out[i].frame) /\ IsToken(out[j].frame)
       /\ out[i].frame # out[j].frame

\* C8: when every attempt fails, retry_with_backoff makes exactly
\* max_retries+1 attempts, sleeps backoff_factor^i between attempt i and
\* attempt i+1 and does not sleep after the last attempt (3 attempts and the
\* waits 1, 2 with the defaults).
C8_RetryBound ==
  (mode = "request" /\ rpc = "raised") =>
    /\ attempts = max_retries + 1
    /\ Len(thrown) = attempts
    /\ Len(waits) = max_retries
    /\ \A i \in 1..Len(waits) : waits[i] = Pow(backoff_factor, i - 1)
    /\ (max_retries = MAX_RETRIES /\ backoff_factor = RETRY_BACKOFF_FACTOR) =>
         (attempts = 3 /\ waits = <<1, 2>>)

C8_Witness ==
  /\ mode = "request" /\ rpc = "raised"
  /\ max_retries = MAX_RETRIES /\ backoff_factor = RETRY_BACKOFF_FACTOR
  /\ attempts = 3 /\ waits = <<1, 2>>
  /\ {thrown[i].msg : i \in 1..Len(thrown)} =
       {"transport", "api_error_status", "cannot_parse_json"}

\* C9: on exhaustion retry_with_backoff raises the very exception of the
\* final attempt, not a wrapper and not the exception of an earlier attempt.
C9_RaisesLastError ==
  (mode = "request" /\ rpc = "raised") =>
    /\ thrown # <<>>
    /\ outcome = thrown[Len(thrown)]
    /\ outcome.attempt = max_retries

C9_Witness ==
  /\ mode = "request" /\ rpc = "raised"
  /\ Len(thrown) = 3
  /\ thrown[1].cls = "TimeoutError"
  /\ thrown[3].msg = "html_instead_of_json"
  /\ outcome = thrown[3]

\* C10: a streaming call never goes through retry_with_backoff and issues
\* exactly one upstream POST, whatever failure ends it.
C10_StreamNeverRetries ==
  stream =>
    /\ rpc = "idle" /\ attempts = 0 /\ waits = <<>>
    /\ posts <= 1
    /\ (mode = "stream" /\ pc \in {"streaming", "finishing", "closed"}) => posts = 1

C10_Witness ==
  /\ stream /\ Closed /\ posts = 1
  /\ how = "read_error"
  /\ nread = 2
  /\ CountOf(IsToken, OutFrames) > 0

\* C11: on a non-ok upstream status the relay reads no chunk and emits
\* exactly the Error frame carrying the message mapped from the status,
\* followed by `[DONE]`.
C11_StatusErrorThenDone ==
  (Closed /\ how = "status") =>
    /\ nread = 0
    /\ OutFrames = <<ErrorFrame(StatusMessage(response_status)), DoneFrame>>

\* C12: when the timeout elapses while the body is being read, the relay
\* emits an Error frame saying that execution exceeded the configured
\* timeout, and then `[DONE]`.
C12_MidStreamTimeoutDetail ==
  (Closed /\ how = "read_timeout") =>
    /\ \E i \in 1..Len(OutFrames) : OutFrames[i] = ErrorFrame(TimeoutDetail)
    /\ IsDone(OutFrames[Len(OutFrames)])

TokenText(f) == IF IsContent(f) THEN f.obj.content ELSE f.obj.data.chunk

\* the content the relayed frames fs stand for: the final message of the
\* latest Complete frame, followed by the tokens relayed after it
RECURSIVE RelayedContent(_)
RelayedContent(fs) ==
  IF fs = <<>> THEN ""
  ELSE LET f == fs[Len(fs)]
           before == SubSeq(fs, 1, Len(fs) - 1) IN
       IF IsComplete(f) THEN f.obj.content
       ELSE IF IsToken(f) THEN RelayedContent(before) \o TokenText(f)
       ELSE RelayedContent(before)

ReadFailed == Closed /\ how \in {"read_error", "read_timeout"}

\* C13: when the read of the body fails after at least one token was
\* relayed, the frame before the final `[DONE]` is a Complete frame whose
\* content is the content accumulated from the relayed tokens.
C13_PartialContentKept ==
  (ReadFailed /\ CountOf(IsToken, OutFrames) > 0) =>
    /\ Len(OutFrames) >= 3
    /\ IsDone(OutFrames[Len(OutFrames)])
    /\ IsComplete(OutFrames[Len(OutFrames) - 1])
    /\ OutFrames[Len(OutFrames) - 1].obj.content =
         RelayedContent(SubSeq(OutFrames, 1, Len(OutFrames) - 2))
    /\ CountOf(IsComplete, OutFrames) = 1 =>
         OutFrames[Len(OutFrames) - 1].obj.content =
           Concat([i \in 1..Len(SelectSeq(OutFrames, IsToken)) |->
                     TokenText(SelectSeq(OutFrames, IsToken)[i])])

C13_Witness ==
  /\ ReadFailed
  /\ how = "read_error"
  /\ CountOf(IsToken, OutFrames) = 2
  /\ CountOf(IsComplete, OutFrames) = 1
  /\ OutFrames[Len(OutFrames) - 1].obj.content = "ab"

-----------------------------------------------------------------------------
(* run_workflow: properties, checked under SpecRun *)

Answered == run_pc = "done"

\* the indexes of the entries with role "user" and a content
UserIndexes(ms) == {i \in 1..Len(ms) : ms[i].role = "user" /\ ms[i].hasContent}
NonBlankUserIndexes(ms) == {i \in UserIndexes(ms) : Strip(ms[i].content) # ""}
Last(S) == CHOOSE i \in S : \A j \in S : j <= i

\* the request carries no user message, or the latest one is blank
NoUsableUserMessage(ms) ==
  UserIndexes(ms) = {} \/ Strip(ms[Last(UserIndexes(ms))].content) = ""

NoUpstreamCall == attempts = 0 /\ posts = 0 /\ langflow_data = EmptyDict

WorkflowResolves == workflow_row.found
AgentSupplied == agent_id # "none"
AgentResolves == AgentSupplied /\ agent_row = "live"
ApiUrlSet == base_url \o workflow_row.api_path # ""

\* C14: the scan for the latest user message skips user messages with blank
\* content: when some user message is non-blank, the last non-blank one is
\* used and the request is not refused for lack of a message
C14_BlankUserMessageSkipped ==
  (Answered /\ NonBlankUserIndexes(messages) # {}) =>
    /\ latest_message = messages[Last(NonBlankUserIndexes(messages))].content
    /\ response # HttpError(400, NoUserMessageDetail)

\* C15: a request with no usable user message is answered HTTP 400 and no
\* upstream call and no retry has been made
C15_NoMessageIs400 ==
  (Answered /\ NoUsableUserMessage(messages)) =>
    /\ response.status = 400
    /\ NoUpstreamCall
    /\ waits = <<>>

C15_Witness ==
  /\ Answered
  /\ Len(messages) = 2
  /\ messages[1] = Message("assistant", TRUE, "ok")
  /\ messages[2] = Message("user", TRUE, "  ")
  /\ workflow_row.found
  /\ AgentResolves
  /\ response = HttpError(400, NoUserMessageDetail)
  /\ NoUpstreamCall

\* C16 as stated: an unresolved workflow id, or an unresolved supplied agent
\* id, is answered HTTP 404 without an upstream call or a retry
C16_UnresolvedIs404 ==
  (Answered /\ (~WorkflowResolves \/ (AgentSupplied /\ ~AgentResolves))) =>
    /\ response.status = 404
    /\ NoUpstreamCall
    /\ waits = <<>>

\* C16, amended: when the request carries a usable user message and the
\* workflow id, or a supplied agent id, cannot be resolved, the answer is
\* HTTP 404 and no upstream call and no retry has been made
C16_UsableUnresolvedIs404 ==
  (/\ Answered
   /\ ~NoUsableUserMessage(messages)
   /\ (~WorkflowResolves \/ (AgentSupplied /\ ~AgentResolves))) =>
    /\ response = HttpError(404, NotFoundDetail)
    /\ NoUpstreamCall
    /\ waits = <<>>

C16_Witness ==
  /\ Answered
  /\ latest_message = "hello"
  /\ ~WorkflowResolves
  /\ AgentResolves
  /\ response = HttpError(404, NotFoundDetail)
  /\ NoUpstreamCall

Resolved ==
  /\ ~NoUsableUserMessage(messages)
  /\ WorkflowResolves
  /\ AgentResolves
  /\ ApiUrlSet

\* C17: for a request whose workflow and agent resolve, the upstream payload
\* is built from the workflow's params overridden key by key (top level only)
\* by the agent's params
C17_PayloadFromMergedParams ==
  (Answered /\ Resolved) =>
    \E agent_params \in ParamDicts :
      LET merged == [k \in DOMAIN workflow_row.params \cup DOMAIN agent_params |->
                       IF k \in DOMAIN agent_params THEN agent_params[k]
                       ELSE workflow_row.params[k]] IN
      langflow_data = LangflowData(InputValue(latest_message, merged))

\* the knowledge items of a params dict
ItemsOf(params) ==
  IF "knowledge" \in DOMAIN params /\ "items" \in DOMAIN params["knowledge"]
  THEN params["knowledge"]["items"] ELSE <<>>
SettingsOf(params) ==
  IF "knowledge" \in DOMAIN params /\ "settings" \in DOMAIN params["knowledge"]
  THEN params["knowledge"]["settings"] ELSE EmptyDict
SettingOr(params, k, default) ==
  IF k \in DOMAIN SettingsOf(params) THEN SettingsOf(params)[k] ELSE default

\* C18: without knowledge items the payload carries the user input only; with
\* items it carries the knowledge-base parameters (first item, the latest
\* message, each missing setting at its default) and the search endpoint
C18_KnowledgeAugmentation ==
  (Answered /\ Resolved) =>
    /\ langflow_data # EmptyDict
    /\ LET p == workflow_row.params
           iv == langflow_data.input_value IN
       IF ItemsOf(p) = <<>>
       THEN iv = [user_input |-> latest_message]
       ELSE /\ DOMAIN iv = {"user_input", "kb_params", "url_value"}
            /\ iv.user_input = latest_message
            /\ iv.url_value = FASTGPT_SEARCH_URL
            /\ iv.kb_params.datasetId = ItemsOf(p)[1]
            /\ iv.kb_params.text = latest_message
            /\ iv.kb_params.searchMode = SettingOr(p, "searchMode", "embedding")
            /\ iv.kb_params.limit = SettingOr(p, "limit", 10)
            /\ iv.kb_params.similarity = SettingOr(p, "similarity", "0.5")
            /\ iv.kb_params.usingReRank = SettingOr(p, "usingReRank", TRUE)
            /\ iv.kb_params.datasetSearchUsingExtensionQuery =
                 SettingOr(p, "datasetSearchUsingExtensionQuery", FALSE)

\* C19: a request without an agent id, with a usable message and a workflow
\* that resolves, is not refused: it goes on to the upstream call with the
\* workflow's params alone
C19_AgentOptional ==
  (/\ Answered
   /\ ~NoUsableUserMessage(messages)
   /\ WorkflowResolves
   /\ ApiUrlSet
   /\ ~AgentSupplied) =>
    /\ response.status \notin {400, 404}
    /\ langflow_data = LangflowData(InputValue(latest_message, workflow_row.params))

\* the texts an answer gives for an upstream 404
NotFoundTexts ==
  {StatusMessage(404), "Error calling Langflow API: " \o StatusMessage(404)}

\* C20: a non-streaming request whose upstream answers 404 to every attempt
\* makes exactly three attempts and is answered HTTP 502 with the not-found
\* text
C20_UpstreamNotFoundIs502 ==
  (Answered /\ Resolved /\ ~StreamParam(req_stream) /\ upstream_status = 404) =>
    /\ attempts = 3
    /\ response.status = 502
    /\ response.detail \in NotFoundTexts

\* C21: a non-streaming request that resolves and whose upstream attempt
\* succeeds (ok status, JSON body) is answered with exactly the upstream's
\* JSON object, after one attempt
C21_JsonPassedThrough ==
  (Answered /\ Resolved /\ ~StreamParam(req_stream) /\ upstream_status = 200) =>
    /\ attempts = 1
    /\ response = HttpError(200, "upstream_json")

-----------------------------------------------------------------------------
(* format_url: properties, checked under SpecUrl *)

IsAbsolute(t) == StartsWith(t, HttpScheme) \/ StartsWith(t, HttpsScheme)

\* path unchanged when absolute, otherwise the two texts, without the
\* slashes added to them, joined by one slash
PathOrJoined ==
  IF IsAbsolute(url_args.path) THEN url = url_args.path
  ELSE url = url_args.base_core \o Slash \o url_args.path_core

\* C22 as stated: format_url returns an absolute path unchanged and otherwise
\* joins base and path by exactly one slash whatever slashes end base and
\* start path, and formatting the result again gives the same result
C22_FormatUrlStable ==
  url_pc = "twice" => (PathOrJoined /\ url_again = url)

\* C22, amended: as above, with the result unchanged by a second formatting
\* when path is absolute or base, without its trailing slashes, is empty or
\* an absolute http(s) URL
C22_FormatUrlStableForAbsoluteBase ==
  url_pc = "twice" =>
    /\ PathOrJoined
    /\ (\/ IsAbsolute(url_args.path)
        \/ url_args.base_core = <<>>
        \/ IsAbsolute(url_args.base_core)) => url_again = url

C22_Witness ==
  /\ url_pc = "twice"
  /\ url_args.base_url = HttpScheme \o <<"x", "/">>
  /\ url_args.path = <<"/", "y">>
  /\ url = HttpScheme \o <<"x", "/", "y">>
  /\ url_again = url

-----------------------------------------------------------------------------
(* The stream relay: failures, cancellation, terminal units (under Spec) *)

HasFrame(f) == \E i \in 1..Len(OutFrames) : OutFrames[i] = f

\* a unit whose decoding or normalization fails
FailingUnit(c) ==
  \/ c.kind \in {"undecodable", "nondict"}
  \/ c.pref /\ c.kind \in {"text", "blank", "joined"}
  \/ HasResult(c) /\ (c.pref \/ c.kind = "legacy") /\ LegacyRaises(c.result.outputs)
  \/ c.kind = "end" /\ ~c.pref /\ EndRaises(c.result)

\* the detail of the Error frame a failing unit is answered with
UnitErrorDetail(c) ==
  CASE c.kind = "undecodable" -> ChunkErrorDetail
    [] c.kind = "nondict" \/ HasResult(c) -> ProcessErrorDetail
    [] OTHER -> ParseErrorDetail

C24_CancelStopsRelay ==
  /\ [](pc = "cancelled" => (session # "open" /\ pending = <<>>))
  /\ [][pc = "cancelled" =>
          /\ out' = out
          /\ nread' = nread
          /\ posts' = posts
          /\ attempts' = attempts
          /\ waits' = waits]_vars

\* cancelled after the frames of two chunks were delivered, before any [DONE]
C24_Witness ==
  /\ pc = "cancelled"
  /\ session = "closed"
  /\ nread = 2
  /\ Len(out) = 2
  /\ out[1].src = 1 /\ out[2].src = 2
  /\ ~HasFrame(DoneFrame)

-----------------------------------------------------------------------------
(* Concurrent calls: properties, checked under SpecCalls *)

\* the frames and the accumulated content of a call that reads the units
\* alone, starting from accumulated content acc
RECURSIVE SoloRun(_, _)
SoloRun(units, acc) ==
  IF units = <<>> THEN [frames |-> <<>>, acc |-> acc]
  ELSE LET r == process_stream_chunk(Head(units), acc, "null")
           rest == SoloRun(Tail(units), r.acc) IN
       [frames |-> ChunkFrames(r) \o rest.frames, acc |-> rest.acc]

\* what a call that read the units alone has yielded
SoloFrames(units, closed) ==
  LET r == SoloRun(units, "") IN
  IF closed
  THEN r.frames \o NoChunkBranch(units # <<>>) \o Completion(r.acc, "null")
  ELSE r.frames

\* C25: under every interleaving of two streaming calls, the frames of each
\* call, its final Complete included, are those of a call that reads the
\* same upstream units alone
C25_CallsIndependent ==
  \A i \in CallIds :
    calls[i].pc # "idle" =>
      calls[i].out = SoloFrames(calls[i].units, calls[i].pc = "closed")

\* both calls closed: call 1 read the tokens a and b, call 2 ended by an end
\* event with the final message m
C25_Witness ==
  /\ calls[1].pc = "closed" /\ calls[2].pc = "closed"
  /\ Len(calls[1].units) = 2 /\ Len(calls[2].units) = 2
  /\ calls[2].units[2].kind = "end"
  /\ calls[1].out = <<ContentFrame("a"), ContentFrame("b"),
                      FinalCompleteFrame("ab", "null"), DoneFrame>>
  /\ calls[2].out[3] = FinalCompleteFrame("m", "null")

-----------------------------------------------------------------------------
(* process_stream_chunk: properties, checked under SpecUnit *)

Processed == unit_pc = "done"

\* the inner outputs of result.outputs[].outputs[], in order
RECURSIVE Flatten(_)
Flatten(outputs) ==
  IF outputs = <<>> THEN <<>> ELSE Head(outputs) \o Flatten(Tail(outputs))

\* the first non-empty text among the candidates, "" when there is none
RECURSIVE FirstNonEmpty(_)
FirstNonEmpty(ts) ==
  IF ts = <<>> THEN ""
  ELSE IF Head(ts) # "" THEN Head(ts) ELSE FirstNonEmpty(Tail(ts))

\* the final message of an end event: (a) result.message, (b) the
\* results.message.data.text of the inner outputs, (c) their
\* outputs.message.message; the first non-empty one
FinalMessage(result) ==
  LET ios == Flatten(result.outputs)
      a == <<IF result.msgKey THEN result.message ELSE "">>
      b == [i \in 1..Len(ios) |-> IF ios[i].rm = "text" THEN ios[i].rmv ELSE ""]
      c == [i \in 1..Len(ios) |-> IF ios[i].om = "msg" THEN ios[i].omv ELSE ""] IN
  FirstNonEmpty(a \o b \o c)

\* C26: an end event whose result.message is a non-empty final message
\* replaces the accumulated content by exactly that message, as bare JSON
\* and as a `data:` line alike
C26_EndReplacesAccumulated ==
  (Processed /\ unit.kind = "end" /\ unit.result.msgKey /\ unit.result.message # "") =>
    stats_after.accumulated_content = unit.result.message

\* C27: an end event for which (a), (b) or (c) gives a non-empty text yields
\* a Complete frame with the first non-empty of them
C27_FirstNonEmptyFinalMessage ==
  (Processed /\ unit.kind = "end" /\ ~unit.pref /\ FinalMessage(unit.result) # "") =>
    \E i \in 1..Len(yielded) :
      /\ IsComplete(yielded[i])
      /\ yielded[i].obj.content = FinalMessage(unit.result)

\* C28: an end event whose result has a session_id records it in the stats,
\* and the Complete frame of the event carries it
C28_SessionIdRecorded ==
  (Processed /\ unit.kind = "end" /\ unit.result.session_id # "") =>
    /\ stats_after.session_id = unit.result.session_id
    /\ \A i \in 1..Len(yielded) :
         IsComplete(yielded[i]) =>
           /\ "session_id" \in DOMAIN yielded[i].obj
           /\ yielded[i].obj.session_id = unit.result.session_id

\* C30: a token event with a non-empty chunk, bare or as a `data:` line,
\* yields exactly one token frame {event, data: {chunk, id, timestamp}} with
\* that chunk, with the id and timestamp of the event when it has them, and
\* appends the chunk once to the accumulated content
C30_TokenFrame ==
  (Processed /\ unit.kind = "token" /\ unit.s # "") =>
    /\ Len(yielded) = 1
    /\ IsTokenEvent(yielded[1])
    /\ yielded[1].obj.data.chunk = unit.s
    /\ unit.id # "" => yielded[1].obj.data.id = unit.id
    /\ unit.ts # "" => yielded[1].obj.data.timestamp = unit.ts
    /\ stats_after.accumulated_content = stats_before.accumulated_content \o unit.s

-----------------------------------------------------------------------------
(* The upstream's own [DONE] (under Spec) *)

\* C29: the unit `data: [DONE]` of the upstream is terminal: the [DONE] the
\* relay emits for it is preceded by a Complete frame with the accumulated
\* content, if there is any, and is the last thing of the stream: no frame
\* follows it and no later unit is read
C29_UpstreamDoneTerminal ==
  \A i \in 1..Len(out) :
    (IsDone(out[i].frame) /\ out[i].src > 0) =>
      /\ i = Len(out)
      /\ pending = <<>>
      /\ nread = out[i].src
      /\ accumulated_content # "" =>
           /\ i > 1
           /\ IsComplete(out[i - 1].frame)
           /\ out[i - 1].frame.obj.content = accumulated_content

-----------------------------------------------------------------------------
(* Units that are not JSON (under SpecUnit) *)

\* C31: a unit that does not parse as JSON, directly or after its `data:`
\* prefix is stripped, is opaque text: with a non-whitespace text it yields
\* one content frame carrying the raw text and the text is appended to the
\* accumulated content; with whitespace only it yields no frame at all and
\* leaves the accumulated content unchanged
C31_OpaqueText ==
  /\ (Processed /\ unit.kind = "text") =>
       /\ Len(yielded) = 1
       /\ IsToken(yielded[1])
       /\ TokenText(yielded[1]) = unit.s
       /\ stats_after.accumulated_content =
            stats_before.accumulated_content \o unit.s
  /\ (Processed /\ unit.kind = "blank") =>
       /\ yielded = <<>>
       /\ stats_after.accumulated_content = stats_before.accumulated_content

-----------------------------------------------------------------------------
(* JSON objects without event and data (under SpecUnit) *)

\* the first non-empty of content, choices[0].delta.content, text, response
FieldPriority(f) == FirstNonEmpty(<<f.content, f.delta, f.text, f.response>>)

\* C32: a JSON object that is no event, no result and no error, and carries
\* content, choices[0].delta.content, text or response, yields one token
\* frame whose value is the first non-empty of these, in this order, and
\* the value is appended to the accumulated content
C32_FieldsYieldToken ==
  (Processed /\ unit.kind = "other" /\ unit.fields.error = ""
     /\ FieldPriority(unit.fields) # "") =>
    /\ Len(yielded) = 1
    /\ IsToken(yielded[1])
    /\ TokenText(yielded[1]) = FieldPriority(unit.fields)
    /\ stats_after.accumulated_content =
         stats_before.accumulated_content \o FieldPriority(unit.fields)

\* C33: a JSON object that is no event and no result, and carries an error
\* member, yields one Error frame with the detail of that error
C33_ErrorFieldYieldsError ==
  (Processed /\ unit.kind = "other" /\ unit.fields.error # "") =>
    /\ Len(yielded) = 1
    /\ IsError(yielded[1])
    /\ yielded[1].obj.error.detail = unit.fields.error

-----------------------------------------------------------------------------
(* A failing chunk does not end the stream (under Spec) *)

\* the texts of the token and content frames among fs, concatenated
RECURSIVE TokenTexts(_)
TokenTexts(fs) ==
  IF fs = <<>> THEN ""
  ELSE (IF IsToken(Head(fs)) THEN TokenText(Head(fs)) ELSE "") \o TokenTexts(Tail(fs))

\* a stream that has read chunks stops reading only when the upstream
\* closes or the read itself fails, and a stream the upstream closed ends
\* with the completion step followed by [DONE]
ReadLoopCompletes ==
  /\ (mode = "stream" /\ nread > 0 /\ pc \in {"finishing", "closed"}) =>
       how \in {"normal", "read_error", "read_timeout"}
  /\ (ClosedNormally /\ nread > 0) =>
       /\ Len(OutFrames) >= 2
       /\ IsDone(OutFrames[Len(OutFrames)])
       /\ OutFrames[Len(OutFrames) - 1] =
            (IF accumulated_content # ""
             THEN FinalCompleteFrame(accumulated_content, session_id)
             ELSE ErrorFrame(EmptyAnswerDetail))

\* C34 as stated: a chunk that fails to decode or to normalize does not end
\* the stream: it contributes nothing to the accumulated content, the later
\* chunks are still read, and the stream ends with the completion step
\* followed by [DONE]
C34_FailingChunkSkipped ==
  /\ ReadLoopCompletes
  /\ (pc = "streaming") =>
       \A c \in Chunks :
         FailingUnit(c) =>
           process_stream_chunk(c, accumulated_content, session_id).acc
             = accumulated_content

\* C34, amended: a chunk that fails to decode or to normalize does not end
\* the stream: it contributes to the accumulated content nothing but the
\* contents it had yielded as content frames before it failed, the later
\* chunks are still read, and the stream ends with the completion step
\* followed by [DONE]
C34_FailingChunkKeepsYielded ==
  /\ ReadLoopCompletes
  /\ (pc = "streaming") =>
       \A c \in Chunks :
         FailingUnit(c) =>
           LET r == process_stream_chunk(c, accumulated_content, session_id) IN
           r.acc = accumulated_content \o TokenTexts(ChunkFrames(r))

\* a chunk yields the content t and then fails, a chunk that cannot be
\* decoded follows, then a token is read and relayed, and the stream the
\* upstream closes ends with Complete and [DONE]
C34_Witness ==
  /\ ClosedNormally
  /\ Frames(out) = <<ContentFrame("t"), ErrorFrame(ProcessErrorDetail),
                     ErrorFrame(ChunkErrorDetail), ContentFrame("a"),
                     FinalCompleteFrame("ta", "null"), DoneFrame>>
  /\ out[2].src = 1 /\ out[3].src = 2 /\ out[4].src = 3

-----------------------------------------------------------------------------
(* process_response (under SpecResponse) *)

Classified == resp_pc = "done"

\* C35: process_response classifies a response in this order: a status of
\* 400 or more fails with the API error and a body excerpt of at most 200
\* characters; otherwise a Content-Type with html and without json fails
\* with the unexpected-content-type error; otherwise a body that is not
\* JSON fails with the malformed-response error and an excerpt of at most
\* 200 characters; otherwise the decoded JSON is returned
C35_ResponseClassification ==
  Classified =>
    IF resp.status >= 400
    THEN /\ ~resp_result.ok
         /\ resp_result.msg = "api_error_status"
         /\ resp_result.details.key = "details"
         /\ resp_result.details.length <= 200
         /\ resp_result.details.length <= resp.len
    ELSE IF ContainsHtml(resp.ctype) /\ ~ContainsJson(resp.ctype)
    THEN /\ ~resp_result.ok
         /\ resp_result.msg = "html_instead_of_json"
    ELSE IF resp.body # "json"
    THEN /\ ~resp_result.ok
         /\ resp_result.msg = "cannot_parse_json"
         /\ resp_result.details.key = "response"
         /\ resp_result.details.length <= 200
    ELSE /\ resp_result.ok
         /\ resp_result.msg = "upstream_json"

-----------------------------------------------------------------------------
(* Errors at the boundary of run_workflow (under SpecRun) *)

\* the texts of the exceptions the interpreter raises inside run_workflow
InternalExceptionTexts == {AttributeErrorText}

\* C36: errors are translated at the boundary: the detail run_workflow
\* answers with never holds the text of an internal exception verbatim
C36_ErrorsTranslated ==
  Answered =>
    \A e \in InternalExceptionTexts : response.detail # WorkflowProcessingError(e)

-----------------------------------------------------------------------------
(* retry_with_backoff stops at the first success (under Spec) *)

Returned == mode = "request" /\ outcome.cls = "return"

\* C37: if attempt k (0-based, k <= max_retries) is the first that does not
\* raise, retry_with_backoff returns its result after exactly k+1 attempts
\* and k waits, the waits of the k failures before it, and there is no
\* attempt and no wait after it
C37_StopsAtFirstSuccess ==
  Returned =>
    /\ rpc = "returned"
    /\ outcome.attempt \in 0..max_retries
    /\ outcome.msg = "upstream_json"
    /\ attempts = outcome.attempt + 1
    /\ Len(thrown) = outcome.attempt
    /\ \A i \in 1..Len(thrown) : thrown[i].attempt = i - 1
    /\ Len(waits) = outcome.attempt
    /\ \A i \in 1..Len(waits) : waits[i] = WaitTime(backoff_factor, i - 1)

\* two attempts raise, the third returns: three attempts, the waits 1 and 3
C37_Witness ==
  /\ Returned
  /\ max_retries = 3 /\ backoff_factor = 3
  /\ outcome.attempt = 2
  /\ attempts = 3
  /\ waits = <<1, 3>>

-----------------------------------------------------------------------------
(* The accumulator of a streaming call (under SpecCalls) *)

\* the frames the k-th of the units yielded in the run of the call
UnitFrames(units, k) ==
  ChunkFrames(process_stream_chunk(units[k], SoloRun(SubSeq(units, 1, k - 1), "").acc,
                                   "null"))

\* the index of the latest end event that carried a final message, 0 if none
LastFinal(units) ==
  LET ends == {k \in 1..Len(units) :
                 units[k].kind = "end" /\ FinalMessage(units[k].result) # ""} IN
  IF ends = {} THEN 0 ELSE CHOOSE k \in ends : \A j \in ends : j <= k

\* the texts of the token and content frames of the units after the j-th
RECURSIVE TextsAfter(_, _)
TextsAfter(units, j) ==
  IF j >= Len(units) THEN ""
  ELSE TokenTexts(UnitFrames(units, j + 1)) \o TextsAfter(units, j + 1)

\* the final message of the latest end event that carried one, followed by
\* the contents of the token and content frames emitted after it
ExpectedAccumulated(units) ==
  LET j == LastFinal(units) IN
  (IF j = 0 THEN "" ELSE FinalMessage(units[j].result)) \o TextsAfter(units, j)

\* C38: after each chunk of a streaming call the accumulated content is the
\* final message of the latest end event that carried one ("" if none)
\* followed by the contents of the token and content frames emitted after
\* it, and the Complete frame of the closing stream carries this value
C38_AccumulatorInvariant ==
  \A i \in CallIds :
    calls[i].pc # "idle" =>
      /\ call_stats[i] = ExpectedAccumulated(calls[i].units)
      /\ (calls[i].pc = "closed" /\ ExpectedAccumulated(calls[i].units) # "") =>
           /\ Len(calls[i].out) >= 2
           /\ calls[i].out[Len(calls[i].out) - 1] =
                FinalCompleteFrame(ExpectedAccumulated(calls[i].units), "null")

-----------------------------------------------------------------------------
(* Events and transport chunks (under SpecUnit) *)

IsRelayed(f) == IsToken(f) \/ IsComplete(f)

\* the token, content and Complete frames among fs, in order
RelayedFrames(fs) == SelectSeq(fs, IsRelayed)

\* C39: the token and Complete frames and the accumulated content do not
\* depend on how the upstream events are split into transport chunks: a
\* chunk that holds two complete events yields the frames, and accumulates
\* the content, of the two events delivered in two chunks
C39_ChunkBoundaryIndependent ==
  (Processed /\ unit.kind = "joined") =>
    LET apart == SoloRun(unit.parts, stats_before.accumulated_content) IN
    /\ RelayedFrames(yielded) = RelayedFrames(apart.frames)
    /\ stats_after.accumulated_content = apart.acc

-----------------------------------------------------------------------------
(* Workflow synchronisation (under SpecSync) *)

UniqueApiPath ==
  \A w1, w2 \in table : w1.api_path = w2.api_path => w1 = w2

BothSynced == \A r \in Requests : reqs[r].pc = "done" /\ reqs[r].ran

\* C40: under every interleaving of two get_workflows requests that both
\* run the sync with the same upstream list, the table never holds two rows
\* with the same api_path, and when both have finished the api_path values
\* of the table are the flow ids the upstream listed
C40_SyncKeepsApiPathUnique ==
  /\ UniqueApiPath
  /\ BothSynced => {w.api_path : w \in table} = FlowIdsOf(upstream)

====
